---- MODULE Spec2Model ----
(***************************************************************************)
(* Model of the workspace server of src/server/index.js: the connection   *)
(* registry, the WebSocket message dispatch, the asynchronous file        *)
(* handlers (one step per await), and the chokidar 'change' listener that *)
(* re-reads the changed file and broadcasts it.                           *)
(*                                                                         *)
(* Paths are sequences of segments.  File contents are sequences of       *)
(* characters.  fs.writeFile is the open-with-truncate followed by the    *)
(* data write that Node performs; the two are separate steps because the  *)
(* handlers of different requests run concurrently between awaits.        *)
(* ws.send on a transport that is not OPEN drops the frame.               *)
(*                                                                         *)
(* executeCode is synchronous: from the message to the execution_result   *)
(* no other callback of the process runs.  A script is the sequence of    *)
(* its effects (log, timer, assignment, return, throw, endless loop); the *)
(* VM's timeout ends an endless loop.  Timers a script creates are host   *)
(* timers and fire when the event loop is free.                           *)
(***************************************************************************)
EXTENDS Integers, Sequences, FiniteSets, TLC

\* ---------------------------------------------------------------- bounds
MaxConns == 2
MaxRequests == 2
\* writes submitted in the broadcast specification
MaxBroadcastWrites == 1
\* requests received in the request/response specification
MaxAnswered == 3
\* HTTP requests received by the REST endpoints
MaxHttp == 2
\* tool processes started, and calls made to the Tool Process Manager
MaxTools == 2
MaxToolCalls == 4
\* SIGINT signals delivered to, and HTTP requests answered by, the sandbox server
MaxSigints == 2
MaxSandboxHttp == 2
\* createFile calls of the Apps
MaxCreates == 1
\* sockets a WebSocketService creates
MaxSockets == 6
\* tool executions a chat page starts
MaxExecutions == 2
\* tool events the event stream delivers to a chat page
MaxToolEvents == 1

\* ------------------------------------------------------------- constants
WORKSPACE_DIR == <<"server", "workspace">>

\* Names of the universe that begin with a dot (the watcher's ignored regex).
DotNames == {".env", ".git"}

\* Request paths the clients use: an existing file, a new file, and a
\* traversal out of the workspace root.
ExamplePath == <<"example.js">>
NewPath     == <<"a.txt">>
EscapePath  == <<"..", "..", "etc", "passwd">>
RelPaths    == {ExamplePath, NewPath, EscapePath}
ListDirs    == {<<".">>, <<"..", "..", "etc">>}

\* Further paths of the universe: a new file in a new directory, a hidden
\* file, and a file in a hidden directory.  None exists at the start.
DeepPath      == <<"d", "b.txt">>
HiddenPath    == <<".env">>
HiddenDirPath == <<".git", "config">>
MorePaths     == {DeepPath, HiddenPath, HiddenDirPath}

\* Contents: X is longer than Y, so that an overlay of Y on X is a mixture.
ContentX == <<"x", "x">>
ContentY == <<"y">>
ContentE == <<"e">>
ContentH == <<"h">>
Contents == {ContentX, ContentY}

\* ------------------------------------------------------------------ path
RECURSIVE NormalizeFrom(_, _, _)
NormalizeFrom(acc, segs, isAbs) ==
  IF segs = <<>> THEN acc
  ELSE LET s == Head(segs)
           rest == Tail(segs)
       IN IF s = "." THEN NormalizeFrom(acc, rest, isAbs)
          ELSE IF s = ".."
            THEN IF acc # <<>> /\ acc[Len(acc)] # ".."
                   THEN NormalizeFrom(SubSeq(acc, 1, Len(acc) - 1), rest, isAbs)
                   ELSE IF isAbs THEN NormalizeFrom(acc, rest, isAbs)
                        ELSE NormalizeFrom(Append(acc, ".."), rest, isAbs)
            ELSE NormalizeFrom(Append(acc, s), rest, isAbs)

\* path.join(WORKSPACE_DIR, p): concatenation followed by normalisation.
PathJoin(base, p) == NormalizeFrom(<<>>, base \o p, TRUE)

\* path.join(directory, name) of two relative paths.
PathJoinRel(dir, name) == NormalizeFrom(<<>>, dir \o <<name>>, FALSE)

PathDirname(p) == IF p = <<>> THEN <<>> ELSE SubSeq(p, 1, Len(p) - 1)

IsPrefix(a, b) == Len(a) <= Len(b) /\ SubSeq(b, 1, Len(a)) = a

RECURSIVE CommonLen(_, _)
CommonLen(a, b) ==
  IF a = <<>> \/ b = <<>> \/ Head(a) # Head(b) THEN 0
  ELSE 1 + CommonLen(Tail(a), Tail(b))

\* path.relative(from, to)
PathRelative(from, to) ==
  LET k == CommonLen(from, to)
  IN [i \in 1..(Len(from) - k) |-> ".."] \o SubSeq(to, k + 1, Len(to))

\* ------------------------------------------------------------ filesystem
Prefixes(p) == {SubSeq(p, 1, n) : n \in 0..Len(p)}

AllNodes ==
  UNION {Prefixes(PathJoin(WORKSPACE_DIR, p)) : p \in RelPaths \cup ListDirs \cup MorePaths}

Absent == [kind |-> "absent", data |-> <<>>]
Dir    == [kind |-> "dir", data |-> <<>>]
File(c) == [kind |-> "file", data |-> c]

InsideRoot(p) == IsPrefix(WORKSPACE_DIR, p)

\* The state of the disk before the server starts: the workspace holds
\* example.js, the host holds /etc/passwd.
InitialDisk ==
  [n \in AllNodes |->
     IF n = PathJoin(WORKSPACE_DIR, ExamplePath) THEN File(ContentE)
     ELSE IF n = PathJoin(WORKSPACE_DIR, EscapePath) THEN File(ContentH)
     ELSE IF n \in Prefixes(WORKSPACE_DIR) \cup Prefixes(<<"etc">>) THEN Dir
     ELSE Absent]

\* fs.ensureDir(dir): "ok" when every component is or can become a
\* directory, otherwise the error code.
EnsureDirResult(fsys, dir) ==
  IF \E q \in Prefixes(dir) : fsys[q].kind = "file" THEN "ENOTDIR" ELSE "ok"

EnsureDirApply(fsys, dir) ==
  [n \in AllNodes |-> IF n \in Prefixes(dir) /\ fsys[n].kind = "absent" THEN Dir ELSE fsys[n]]

\* open(path, 'w') of fs.writeFile
OpenResult(fsys, p) ==
  IF fsys[p].kind = "dir" THEN "EISDIR"
  ELSE IF fsys[PathDirname(p)].kind # "dir" THEN "ENOENT"
  ELSE "ok"

\* the data of b laid over a from offset 0, as a write through a
\* descriptor opened at offset 0 leaves the file
Overlay(a, b) ==
  [i \in 1..(IF Len(a) > Len(b) THEN Len(a) ELSE Len(b)) |->
     IF i <= Len(b) THEN b[i] ELSE a[i]]

\* fs.remove(path): the node and everything below it; a missing path is
\* not an error
RemoveApply(fsys, p) ==
  [n \in AllNodes |-> IF IsPrefix(p, n) THEN Absent ELSE fsys[n]]

\* fs.move(src, dest) without overwrite
MoveResult(fsys, src, dest) ==
  IF fsys[src].kind = "absent" THEN "ENOENT"
  ELSE IF src = dest THEN "Source and destination must not be the same."
  ELSE IF fsys[dest].kind # "absent" THEN "dest already exists."
  ELSE "ok"

\* a move that leaves the source in place
MoveApplyCopy(fsys, src, dest) ==
  [n \in AllNodes |-> IF n = dest THEN fsys[src] ELSE fsys[n]]

MoveApply(fsys, src, dest) ==
  [n \in AllNodes |->
     IF n = dest THEN fsys[src]
     ELSE IF n = src THEN Absent
     ELSE fsys[n]]

\* chokidar's ignored option: a path with a dot-prefixed segment
Ignored(p) == \E i \in 1..Len(p) : p[i] \in DotNames

\* the watcher observes the subtree of WORKSPACE_DIR
Watched(p) == InsideRoot(p) /\ ~Ignored(p)

\* ---------------------------------------------------------------- events
NoPath == <<>>
Event(t, p, np, c, fl, m) ==
  [type |-> t, path |-> p, newPath |-> np, content |-> c, files |-> fl, message |-> m]

ErrorEvent(m)          == Event("error", NoPath, NoPath, <<>>, {}, m)
FileChanged(p, c)      == Event("file_changed", p, NoPath, c, {}, <<>>)
FileContent(p, c)      == Event("file_content", p, NoPath, c, {}, <<>>)
FileAck(t, p)          == Event(t, p, NoPath, <<>>, {}, <<>>)
FileRenamed(p, np)     == Event("file_renamed", p, np, <<>>, {}, <<>>)
FileList(fl, d)        == Event("file_list", d, NoPath, <<>>, fl, <<>>)

InvalidFormat == ErrorEvent(<<"Invalid message format">>)
UnknownType(t) == ErrorEvent(<<"Unknown message type", t>>)
Failed(what, code) == ErrorEvent(<<what, code>>)

\* a type string no case of the switch matches
UnknownTypes == {"ping"}

\* ----------------------------------------------------------------- state
\* ------------------------------------------------------- script values
\* A JavaScript value: its type and its literal.
Value(t, lit) == [type |-> t, lit |-> lit]
Undefined == Value("undefined", "undefined")

VARIABLES
  running,      \* the server process is alive
  nextId,       \* number of ids handed out by uuidv4 so far
  connections,  \* the registry, in insertion order (Map iteration order)
  readyState,   \* per connection id: the transport's readyState
  received,     \* per connection id: the events delivered to the client
  disk,         \* the host filesystem
  requests,     \* every request received so far, with its handler's position
  changes,      \* per path: 'change' notifications chokidar has yet to emit
  vm,           \* the sandbox constructed last; req is the request whose
                \* vm.run is on the stack, 0 when none is
  timers,       \* the host timers created by scripts that have yet to fire
  timerProp,    \* the property x of the host's setTimeout function object
  http,         \* the HTTP exchanges of the REST endpoints, in order of arrival
  nextTool,     \* Tool Process Manager: number of process ids handed out
  tools,        \* Tool Process Manager: per process id, kind and status
  toolLog,      \* Tool Process Manager: the calls made, with their outcomes
  sandboxUp,    \* sandbox server: the process is alive
  browser,      \* sandbox server: the variable browser
  chromium,     \* sandbox server: the state of the browser process
  closing,      \* sandbox server: SIGINT handlers awaiting browser.close()
  atSigint,     \* sandbox server: the browser's state when SIGINT first came
  sandboxHttp,  \* sandbox server: the HTTP answers given and the SIGINTs
                \* received, in order
  isConnected,  \* App, per connection: the state isConnected
  isExecuting,  \* App, per connection: the state isExecuting
  files,        \* App, per connection: the state files
  appSent,      \* App, per connection: the messages sent, in order
  handled,      \* App, per connection: how many received events
                \* handleServerMessage has been called with
  thisWs,       \* WebSocketService: this.ws, 0 for null, else the socket
  sockets,      \* WebSocketService: the sockets created, with their state
  reconnectAttempts,  \* WebSocketService: this.reconnectAttempts
  isConnecting, \* WebSocketService: this.isConnecting
  reconnectTimers,    \* WebSocketService: the delays of the pending timers
  userDisconnected,   \* disconnect() was called and connect() not since
  sinceOpen,    \* reconnects scheduled since a socket last opened
  messages,     \* ChatPage: this.messages
  executions,   \* ChatPage: the calls of handleExecuteTool, each with its
                \* request, its position in the function and the index
                \* of the message it pushed
  toolEvents    \* ChatPage: tool events received from the event stream

\* the workspace server of src/server/index.js
serverVars == <<running, nextId, connections, readyState, received, disk, requests,
               changes, vm, timers, timerProp, http>>

\* the Tool Process Manager
toolVars == <<nextTool, tools, toolLog>>

\* the sandbox server with its browser
sandboxVars == <<sandboxUp, browser, chromium, closing, atSigint, sandboxHttp>>

\* everything that is not state of the workspace server
\* the client App, one per connection
appVars == <<isConnected, isExecuting, files, appSent, handled>>

\* the client's WebSocketService
serviceVars == <<thisWs, sockets, reconnectAttempts, isConnecting, reconnectTimers,
                userDisconnected, sinceOpen>>

\* the chat page of the frontend
chatVars == <<messages, executions, toolEvents>>

outside == <<toolVars, sandboxVars, appVars, serviceVars, chatVars>>

exceptTools == <<serverVars, sandboxVars, appVars, serviceVars, chatVars>>
exceptSandbox == <<serverVars, toolVars, appVars, serviceVars, chatVars>>
exceptApp == <<serverVars, toolVars, sandboxVars, serviceVars, chatVars>>
exceptService == <<serverVars, toolVars, sandboxVars, appVars, chatVars>>
exceptChat == <<serverVars, toolVars, sandboxVars, appVars, serviceVars>>

vars == <<serverVars, outside>>

ConnIds == 1..MaxConns

\* WebSocketService constructor
maxReconnectAttempts == 5
reconnectInterval == 1000

\* ToolProcess ids; an id is unknown to the manager until start hands it out
ToolIds == 1..MaxTools
ToolKinds == {"playwright", "fetch"}
NoTool == [kind |-> "none", status |-> "none"]

Registered == {connections[i] : i \in 1..Len(connections)}

FilePaths == {PathJoin(WORKSPACE_DIR, p) : p \in RelPaths \cup MorePaths}

Init ==
  /\ running = TRUE
  /\ nextId = 0
  /\ connections = <<>>
  /\ readyState = [c \in ConnIds |-> "NONE"]
  /\ received = [c \in ConnIds |-> <<>>]
  /\ disk = InitialDisk
  /\ requests = <<>>
  /\ changes = [p \in FilePaths |-> 0]
  /\ vm = [req |-> 0, ip |-> 0, global |-> Undefined]
  /\ timers = <<>>
  /\ timerProp = Undefined
  /\ http = <<>>
  /\ nextTool = 0
  /\ tools = [t \in ToolIds |-> NoTool]
  /\ toolLog = <<>>
  /\ sandboxUp = TRUE
  /\ browser = "undefined"
  /\ chromium = "none"
  /\ closing = 0
  /\ atSigint = "no SIGINT"
  /\ sandboxHttp = <<>>
  /\ isConnected = [c \in ConnIds |-> FALSE]
  /\ isExecuting = [c \in ConnIds |-> FALSE]
  /\ files = [c \in ConnIds |-> {}]
  /\ appSent = [c \in ConnIds |-> <<>>]
  /\ handled = [c \in ConnIds |-> 0]
  /\ thisWs = 0
  /\ sockets = <<>>
  /\ reconnectAttempts = 0
  /\ isConnecting = FALSE
  /\ reconnectTimers = <<>>
  /\ userDisconnected = FALSE
  /\ sinceOpen = 0
  /\ messages = <<>>
  /\ executions = <<>>
  /\ toolEvents = 0

\* ------------------------------------------------------------- transport
\* ws.send(JSON.stringify(ev)) on connection c
Send(rcv, c, ev) ==
  IF readyState[c] = "OPEN" THEN [rcv EXCEPT ![c] = Append(@, ev)] ELSE rcv

\* a broadcast that gives up at the first transport that is not open
RECURSIVE BroadcastFromAbort(_, _, _)
BroadcastFromAbort(rcv, conns, ev) ==
  IF conns = <<>> THEN rcv
  ELSE LET ws == Head(conns)
       IN IF readyState[ws] = "OPEN"
            THEN BroadcastFromAbort([rcv EXCEPT ![ws] = Append(@, ev)], Tail(conns), ev)
            ELSE rcv

\* connections.forEach(ws => if (ws.readyState === OPEN) ws.send(...))
RECURSIVE BroadcastFrom(_, _, _)
BroadcastFrom(rcv, conns, ev) ==
  IF conns = <<>> THEN rcv
  ELSE LET ws == Head(conns)
       IN BroadcastFrom(IF readyState[ws] = "OPEN"
                          THEN [rcv EXCEPT ![ws] = Append(@, ev)]
                          ELSE rcv,
                        Tail(conns), ev)

broadcastToAll(rcv, ev) == BroadcastFrom(rcv, connections, ev)

RemoveConn(conns, c) == SelectSeq(conns, LAMBDA x : x # c)

\* Node runs one callback at a time: vm.run(code) is a synchronous call, so
\* while a script runs no other callback of the process does.
Idle == running /\ vm.req = 0

\* ------------------------------------------------------------ connection
\* an attach that registers the new transport under the first id again
wss_connection_reuse ==
  /\ Idle
  /\ nextId < MaxConns
  /\ nextId' = nextId + 1
  /\ connections' = Append(connections, 1)
  /\ readyState' = [readyState EXCEPT ![1] = "OPEN"]
  /\ UNCHANGED <<running, received, disk, requests, changes, vm, timers, timerProp, http, outside>>

\* wss.on('connection'): a fresh id is registered
wss_connection ==
  /\ Idle
  /\ nextId < MaxConns
  /\ nextId' = nextId + 1
  /\ connections' = Append(connections, nextId + 1)
  /\ readyState' = [readyState EXCEPT ![nextId + 1] = "OPEN"]
  /\ UNCHANGED <<running, received, disk, requests, changes, vm, timers, timerProp, http, outside>>

\* the peer starts closing (close frame or socket end): the transport
\* leaves OPEN before the 'close' event is emitted
ws_closing(c) ==
  /\ Idle
  /\ readyState[c] = "OPEN"
  /\ readyState' = [readyState EXCEPT ![c] = "CLOSING"]
  /\ UNCHANGED <<running, nextId, connections, received, disk, requests, changes, vm, timers, timerProp, http, outside>>

\* a close handler that leaves the closed connection in the registry
ws_close_keep(c) ==
  /\ Idle
  /\ readyState[c] = "CLOSING"
  /\ readyState' = [readyState EXCEPT ![c] = "CLOSED"]
  /\ UNCHANGED <<running, nextId, connections, received, disk, requests, changes, vm, timers, timerProp, http, outside>>

\* ws.on('close'): connections.delete(connectionId)
ws_close(c) ==
  /\ Idle
  /\ readyState[c] = "CLOSING"
  /\ readyState' = [readyState EXCEPT ![c] = "CLOSED"]
  /\ connections' = RemoveConn(connections, c)
  /\ UNCHANGED <<running, nextId, received, disk, requests, changes, vm, timers, timerProp, http, outside>>

\* ------------------------------------------------------------- requests
\* Besides the handler's arguments and position a request records what its
\* handler did: existed (the open found the file), ok (the success event was
\* sent), applied (the rank of its write among the writes applied to the
\* store) and audience (the connections registered with an open transport
\* when its write was applied).
Request(c, t, p, np, ct, pc) ==
  [conn |-> c, type |-> t, filePath |-> p, newPath |-> np, content |-> ct,
   pc |-> pc, existed |-> FALSE, ok |-> FALSE, applied |-> 0, audience |-> {}]

\* the server takes a message from c while fewer than n have been received
CanReceiveUpTo(c, n) ==
  /\ Idle
  /\ readyState[c] = "OPEN"
  /\ Len(requests) < n

CanReceive(c) == CanReceiveUpTo(c, MaxRequests)

\* a catch that answers the sender and then closes its transport
ws_message_malformed_close(c) ==
  /\ Idle
  /\ readyState[c] = "OPEN"
  /\ Len(requests) < MaxRequests
  /\ received' = [received EXCEPT ![c] = Append(@, InvalidFormat)]
  /\ readyState' = [readyState EXCEPT ![c] = "CLOSING"]
  /\ requests' = Append(requests, [conn |-> c, type |-> "malformed", filePath |-> NoPath,
                                   newPath |-> NoPath, content |-> <<>>, pc |-> "done",
                                   existed |-> FALSE, ok |-> FALSE, applied |-> 0,
                                   audience |-> {}])
  /\ UNCHANGED <<running, nextId, connections, disk, changes, vm, timers, timerProp, http, outside>>

\* ws.on('message'): JSON.parse throws, the catch answers the sender
ws_message_malformed(c) ==
  /\ CanReceive(c)
  /\ received' = Send(received, c, InvalidFormat)
  /\ requests' = Append(requests, Request(c, "malformed", NoPath, NoPath, <<>>, "done"))
  /\ UNCHANGED <<running, nextId, connections, readyState, disk, changes, vm, timers, timerProp, http, outside>>

\* a default case that reports the unknown type to every client
handle_unknown_broadcast(c, t) ==
  /\ Idle
  /\ readyState[c] = "OPEN"
  /\ Len(requests) < MaxRequests
  /\ received' = [d \in ConnIds |->
                   IF readyState[d] = "OPEN"
                     THEN Append(received[d], ErrorEvent(<<"Unknown message type", t>>))
                     ELSE received[d]]
  /\ requests' = Append(requests, [conn |-> c, type |-> t, filePath |-> NoPath,
                                   newPath |-> NoPath, content |-> <<>>, pc |-> "done",
                                   existed |-> FALSE, ok |-> FALSE, applied |-> 0,
                                   audience |-> {}])
  /\ UNCHANGED <<running, nextId, connections, readyState, disk, changes, vm, timers, timerProp, http, outside>>

\* handleWebSocketMessage: the default case of the switch
handle_unknown(c, t) ==
  /\ CanReceive(c)
  /\ received' = Send(received, c, UnknownType(t))
  /\ requests' = Append(requests, Request(c, t, NoPath, NoPath, <<>>, "done"))
  /\ UNCHANGED <<running, nextId, connections, readyState, disk, changes, vm, timers, timerProp, http, outside>>

\* A file case of the switch: the handler runs to its first await.
\* path.join is synchronous; the first fs call is issued and pending.
DispatchUpTo(c, t, p, np, ct, pc, n) ==
  /\ CanReceiveUpTo(c, n)
  /\ requests' = Append(requests, Request(c, t, p, np, ct, pc))
  /\ UNCHANGED <<running, nextId, connections, readyState, received, disk, changes, vm, timers,
                 timerProp, http, outside>>

Dispatch(c, t, p, np, ct, pc) == DispatchUpTo(c, t, p, np, ct, pc, MaxRequests)

handle_read_file(c, p)       == Dispatch(c, "read_file", p, NoPath, <<>>, "readFile")
handle_write_file(c, p, ct)  == Dispatch(c, "write_file", p, NoPath, ct, "ensureDir")
handle_create_file(c, p, ct) == Dispatch(c, "create_file", p, NoPath, ct, "ensureDir")
handle_list_files(c, d)      == Dispatch(c, "list_files", d, NoPath, <<>>, "readdir")
handle_delete_file(c, p)     == Dispatch(c, "delete_file", p, NoPath, <<>>, "remove")
handle_rename_file(c, p, np) == Dispatch(c, "rename_file", p, np, <<>>, "ensureDir")

\* ------------------------------------------------------- handler steps
Finish(i) == [requests EXCEPT ![i].pc = "done"]
Goto(i, pc) == [requests EXCEPT ![i].pc = pc]

Pending(i, t, pc) ==
  /\ Idle
  /\ i \in 1..Len(requests)
  /\ requests[i].type = t
  /\ requests[i].pc = pc

\* readFile: fs.readFile completes, the content or the error is sent
readFile(i) ==
  /\ Pending(i, "read_file", "readFile")
  /\ LET r == requests[i]
         fullPath == PathJoin(WORKSPACE_DIR, r.filePath)
         node == disk[fullPath]
     IN received' = Send(received, r.conn,
                       IF node.kind = "file" THEN FileContent(r.filePath, node.data)
                       ELSE IF node.kind = "dir" THEN Failed("Failed to read file", "EISDIR")
                       ELSE Failed("Failed to read file", "ENOENT"))
  /\ requests' = [requests EXCEPT ![i].pc = "done",
                                  ![i].ok = (disk[PathJoin(WORKSPACE_DIR, requests[i].filePath)].kind = "file")]
  /\ UNCHANGED <<running, nextId, connections, readyState, disk, changes, vm, timers, timerProp, http, outside>>

FailWhat(t) ==
  IF t = "write_file" THEN "Failed to write file"
  ELSE IF t = "create_file" THEN "Failed to create file"
  ELSE IF t = "rename_file" THEN "Failed to rename file"
  ELSE IF t = "delete_file" THEN "Failed to delete file"
  ELSE "Failed to list files"

AckType(t) == IF t = "write_file" THEN "file_written" ELSE "file_created"

\* writeFile / createFile: await fs.ensureDir(path.dirname(fullPath))
StoreEnsureDir(i, t) ==
  /\ Pending(i, t, "ensureDir")
  /\ LET r == requests[i]
         dir == PathDirname(PathJoin(WORKSPACE_DIR, r.filePath))
         res == EnsureDirResult(disk, dir)
     IN IF res = "ok"
          THEN /\ disk' = EnsureDirApply(disk, dir)
               /\ requests' = Goto(i, "open")
               /\ UNCHANGED received
          ELSE /\ received' = Send(received, r.conn, Failed(FailWhat(t), res))
               /\ requests' = Finish(i)
               /\ UNCHANGED disk
  /\ UNCHANGED <<running, nextId, connections, readyState, changes, vm, timers, timerProp, http, outside>>

\* fs.writeFile, first half: the file is opened for writing, which creates
\* it or truncates it
StoreOpen(i, t) ==
  /\ Pending(i, t, "open")
  /\ LET r == requests[i]
         fullPath == PathJoin(WORKSPACE_DIR, r.filePath)
         res == OpenResult(disk, fullPath)
     IN IF res = "ok"
          THEN /\ disk' = [disk EXCEPT ![fullPath] = File(<<>>)]
               /\ requests' = [requests EXCEPT ![i].pc = "write",
                                               ![i].existed = (disk[fullPath].kind = "file")]
               /\ UNCHANGED received
          ELSE /\ received' = Send(received, r.conn, Failed(FailWhat(t), res))
               /\ requests' = Finish(i)
               /\ UNCHANGED disk
  /\ UNCHANGED <<running, nextId, connections, readyState, changes, vm, timers, timerProp, http, outside>>

\* fs.writeFile, second half: the data is written from offset 0, the
\* promise resolves and the acknowledgment is sent.  A write to a file
\* that existed before the open is a modification chokidar reports as
\* 'change'; a file the open created is reported as 'add', for which the
\* server registers no listener.
StoreWrite(i, t) ==
  /\ Pending(i, t, "write")
  /\ LET r == requests[i]
         fullPath == PathJoin(WORKSPACE_DIR, r.filePath)
         present == disk[fullPath].kind = "file"
     IN /\ disk' = IF present
                     THEN [disk EXCEPT ![fullPath] = File(Overlay(@.data, r.content))]
                     ELSE disk
        /\ changes' = IF present /\ r.existed /\ Watched(fullPath)
                        THEN [changes EXCEPT ![fullPath] = @ + 1]
                        ELSE changes
        /\ received' = Send(received, r.conn, FileAck(AckType(t), r.filePath))
        /\ requests' = [requests EXCEPT
                          ![i].pc = "done",
                          ![i].ok = TRUE,
                          ![i].applied = 1 + Cardinality({j \in 1..Len(requests) :
                                                            requests[j].applied > 0}),
                          ![i].audience = {c \in Registered : readyState[c] = "OPEN"}]
  /\ UNCHANGED <<running, nextId, connections, readyState, vm, timers, timerProp, http, outside>>

writeFile_ensureDir(i)  == StoreEnsureDir(i, "write_file")
writeFile_open(i)       == StoreOpen(i, "write_file")
writeFile_write(i)      == StoreWrite(i, "write_file")
createFile_ensureDir(i) == StoreEnsureDir(i, "create_file")
createFile_open(i)      == StoreOpen(i, "create_file")
createFile_write(i)     == StoreWrite(i, "create_file")

\* fs.readdir and what it names
DirEntries(fsys, d, full) ==
  {[name |-> n[Len(n)],
    type |-> IF fsys[n].kind = "dir" THEN "directory" ELSE "file",
    path |-> PathJoinRel(d, n[Len(n)])] :
     n \in {m \in AllNodes : Len(m) = Len(full) + 1 /\ IsPrefix(full, m)
                             /\ fsys[m].kind # "absent"}}

\* a listing that first makes sure the directory exists
listFiles_ensureDir(i) ==
  /\ Pending(i, "list_files", "readdir")
  /\ LET r == requests[i]
         fullPath == PathJoin(WORKSPACE_DIR, r.filePath)
         made == IF EnsureDirResult(disk, fullPath) = "ok"
                   THEN EnsureDirApply(disk, fullPath) ELSE disk
         node == made[fullPath]
     IN /\ disk' = made
        /\ received' = Send(received, r.conn,
                          IF node.kind = "dir"
                            THEN FileList(DirEntries(made, r.filePath, fullPath), r.filePath)
                          ELSE Failed("Failed to list files", "ENOTDIR"))
        /\ requests' = [requests EXCEPT ![i].pc = "done", ![i].ok = (node.kind = "dir")]
  /\ UNCHANGED <<running, nextId, connections, readyState, changes, vm, timers, timerProp,
                 http, outside>>

\* listFiles: fs.readdir completes
listFiles(i) ==
  /\ Pending(i, "list_files", "readdir")
  /\ LET r == requests[i]
         fullPath == PathJoin(WORKSPACE_DIR, r.filePath)
         node == disk[fullPath]
     IN received' = Send(received, r.conn,
                       IF node.kind = "dir"
                         THEN FileList(DirEntries(disk, r.filePath, fullPath), r.filePath)
                       ELSE IF node.kind = "file" THEN Failed("Failed to list files", "ENOTDIR")
                       ELSE Failed("Failed to list files", "ENOENT"))
  /\ requests' = [requests EXCEPT ![i].pc = "done",
                                  ![i].ok = (disk[PathJoin(WORKSPACE_DIR, requests[i].filePath)].kind = "dir")]
  /\ UNCHANGED <<running, nextId, connections, readyState, disk, changes, vm, timers, timerProp, http, outside>>

\* deleteFile: fs.remove completes; it removes what is at the path and
\* succeeds when nothing is.  existed records which it found.
deleteFile(i) ==
  /\ Pending(i, "delete_file", "remove")
  /\ LET r == requests[i]
         fullPath == PathJoin(WORKSPACE_DIR, r.filePath)
     IN /\ disk' = RemoveApply(disk, fullPath)
        /\ received' = Send(received, r.conn, FileAck("file_deleted", r.filePath))
  /\ requests' = [requests EXCEPT
                    ![i].pc = "done",
                    ![i].ok = TRUE,
                    ![i].existed =
                      (disk[PathJoin(WORKSPACE_DIR, requests[i].filePath)].kind # "absent")]
  /\ UNCHANGED <<running, nextId, connections, readyState, changes, vm, timers, timerProp, http, outside>>

\* renameFile: await fs.ensureDir(path.dirname(newFullPath))
renameFile_ensureDir(i) ==
  /\ Pending(i, "rename_file", "ensureDir")
  /\ LET r == requests[i]
         dir == PathDirname(PathJoin(WORKSPACE_DIR, r.newPath))
         res == EnsureDirResult(disk, dir)
     IN IF res = "ok"
          THEN /\ disk' = EnsureDirApply(disk, dir)
               /\ requests' = Goto(i, "move")
               /\ UNCHANGED received
          ELSE /\ received' = Send(received, r.conn, Failed("Failed to rename file", res))
               /\ requests' = Finish(i)
               /\ UNCHANGED disk
  /\ UNCHANGED <<running, nextId, connections, readyState, changes, vm, timers, timerProp, http, outside>>

\* renameFile: await fs.move(oldFullPath, newFullPath)
renameFile_move(i) ==
  /\ Pending(i, "rename_file", "move")
  /\ LET r == requests[i]
         oldFullPath == PathJoin(WORKSPACE_DIR, r.filePath)
         newFullPath == PathJoin(WORKSPACE_DIR, r.newPath)
         res == MoveResult(disk, oldFullPath, newFullPath)
     IN IF res = "ok"
          THEN /\ disk' = MoveApply(disk, oldFullPath, newFullPath)
               /\ received' = Send(received, r.conn, FileRenamed(r.filePath, r.newPath))
               /\ requests' = [requests EXCEPT ![i].pc = "done", ![i].ok = TRUE]
          ELSE /\ received' = Send(received, r.conn, Failed("Failed to rename file", res))
               /\ requests' = Finish(i)
               /\ UNCHANGED disk
  /\ UNCHANGED <<running, nextId, connections, readyState, changes, vm, timers, timerProp, http, outside>>

\* --------------------------------------------------------------- watcher
\* watcher.on('change'): the file is re-read synchronously and broadcast.
\* readFileSync throws when the file is gone; nothing catches it, and the
\* uncaught exception ends the process.
watcher_change(p) ==
  /\ Idle
  /\ changes[p] > 0
  /\ changes' = [changes EXCEPT ![p] = @ - 1]
  /\ IF disk[p].kind = "file"
       THEN /\ received' = broadcastToAll(received,
                             FileChanged(PathRelative(WORKSPACE_DIR, p), disk[p].data))
            /\ UNCHANGED running
       ELSE /\ running' = FALSE
            /\ UNCHANGED received
  /\ UNCHANGED <<nextId, connections, readyState, disk, requests, vm, timers, timerProp, http, outside>>

\* --------------------------------------------------------------- sandbox
\* typeof v === 'object' ? JSON.stringify(v, null, 2) : String(v)
Stringify(v) ==
  IF v.type = "object" THEN <<"JSON.stringify", v.lit>> ELSE <<"String", v.lit>>

\* let result: undefined is left out of the JSON sent; let error = null
NoResult == <<>>
NoError == <<>>

ConsoleOutput(v) == [type |-> "console_output", output |-> Stringify(v)]
ExecutionResult(result, error, language) ==
  [type |-> "execution_result", result |-> result, error |-> error, language |-> language]
ExecutionError(error) == [type |-> "execution_error", error |-> error]

TimedOut == <<"Script execution timed out">>
Unsupported(language) == <<"Unsupported language", language>>
HostFailure == <<"VM construction failed">>

\* A script is the sequence of the effects it has when run.
Instr(op, arg) == [op |-> op, arg |-> arg]
Log(v)        == Instr("console.log", v)
Return(v)     == Instr("return", v)
Throw(v)      == Instr("throw", v)
Forever       == Instr("while(true)", Undefined)
SetTimeout(v) == Instr("setTimeout", v)    \* the callback logs v
Assign(v)     == Instr("global =", v)      \* x = v, x a global of the script
ReturnGlobal  == Instr("return global", Undefined)
AssignProp(v) == Instr("setTimeout.x =", v)
ReturnProp    == Instr("return setTimeout.x", Undefined)

JsLanguages == {"javascript", "js"}

\* Besides what Request records, an execute_code request records the
\* terminal event its handler sent (terminal, result, error).
ExecRequest(c, code, language, pc) ==
  [conn |-> c, type |-> "execute_code", filePath |-> NoPath, newPath |-> NoPath,
   content |-> <<>>, pc |-> pc, existed |-> FALSE, ok |-> FALSE, applied |-> 0,
   audience |-> {}, code |-> code, language |-> language,
   terminal |-> "none", result |-> NoResult, error |-> NoError]

\* new VM({timeout, sandbox}): a fresh context for every call
NewVM(i) == [req |-> i, ip |-> 1, global |-> Undefined]

\* executeCode, language javascript: the VM is constructed and vm.run(code)
\* is entered
handle_execute_code(c, code, language) ==
  /\ CanReceive(c)
  /\ language \in JsLanguages
  /\ requests' = Append(requests, ExecRequest(c, code, language, "run"))
  /\ vm' = NewVM(Len(requests) + 1)
  /\ UNCHANGED <<running, nextId, connections, readyState, received, disk, changes, timers, timerProp, http, outside>>

\* a handler that runs the script whatever language is declared
handle_execute_any(c, code, language) ==
  /\ CanReceive(c)
  /\ language \notin JsLanguages
  /\ requests' = Append(requests, ExecRequest(c, code, language, "run"))
  /\ vm' = NewVM(Len(requests) + 1)
  /\ UNCHANGED <<running, nextId, connections, readyState, received, disk, changes, timers,
                 timerProp, http, outside>>

\* executeCode, any other language: the else branch and the send
handle_execute_unsupported(c, code, language) ==
  /\ CanReceive(c)
  /\ language \notin JsLanguages
  /\ received' = Send(received, c, ExecutionResult(NoResult, Unsupported(language), language))
  /\ requests' = Append(requests,
                   [ExecRequest(c, code, language, "done") EXCEPT
                      !.terminal = "execution_result",
                      !.error = Unsupported(language)])
  /\ UNCHANGED <<running, nextId, connections, readyState, disk, changes, vm, timers, timerProp, http, outside>>

\* executeCode, the outer catch: constructing the VM throws
handle_execute_vm_fails(c, code, language) ==
  /\ CanReceive(c)
  /\ language \in JsLanguages
  /\ received' = Send(received, c, ExecutionError(HostFailure))
  /\ requests' = Append(requests,
                   [ExecRequest(c, code, language, "done") EXCEPT
                      !.terminal = "execution_error",
                      !.error = HostFailure])
  /\ UNCHANGED <<running, nextId, connections, readyState, disk, changes, vm, timers, timerProp, http, outside>>

\* the script of request i is running and its next effect is one of ops
AtInstr(i, ops) ==
  /\ running
  /\ i \in 1..Len(requests)
  /\ vm.req = i
  /\ vm.ip <= Len(requests[i].code)
  /\ requests[i].code[vm.ip].op \in ops

\* a log primitive that reaches every client
vm_log_all(i) ==
  /\ AtInstr(i, {"console.log"})
  /\ received' = [d \in ConnIds |->
                   IF readyState[d] = "OPEN"
                     THEN Append(received[d], ConsoleOutput(requests[i].code[vm.ip].arg))
                     ELSE received[d]]
  /\ vm' = [vm EXCEPT !.ip = @ + 1]
  /\ UNCHANGED <<running, nextId, connections, readyState, disk, requests, changes, timers, timerProp, http, outside>>

\* sandbox.console.log: the output is sent on the requester's socket
vm_log(i) ==
  /\ AtInstr(i, {"console.log"})
  /\ received' = Send(received, requests[i].conn, ConsoleOutput(requests[i].code[vm.ip].arg))
  /\ vm' = [vm EXCEPT !.ip = @ + 1]
  /\ UNCHANGED <<running, nextId, connections, readyState, disk, requests, changes, timers, timerProp, http, outside>>

\* sandbox.setTimeout is the host's setTimeout: the timer is the host's
vm_setTimeout(i) ==
  /\ AtInstr(i, {"setTimeout"})
  /\ timers' = Append(timers, [req |-> i, arg |-> requests[i].code[vm.ip].arg])
  /\ vm' = [vm EXCEPT !.ip = @ + 1]
  /\ UNCHANGED <<running, nextId, connections, readyState, received, disk, requests, changes, timerProp, http, outside>>

\* the script assigns a global of its context
vm_assign(i) ==
  /\ AtInstr(i, {"global ="})
  /\ vm' = [vm EXCEPT !.ip = @ + 1, !.global = requests[i].code[vm.ip].arg]
  /\ UNCHANGED <<running, nextId, connections, readyState, received, disk, requests, changes,
                 timers, timerProp, http, outside>>

\* a handler that sends execution_error after execution_result when the
\* script failed
RespondBoth(i, result, error) ==
  /\ received' =
       LET sent == Send(received, requests[i].conn,
                        ExecutionResult(result, error, requests[i].language))
       IN IF error = NoError THEN sent
          ELSE Send(sent, requests[i].conn, ExecutionError(error))
  /\ requests' = [requests EXCEPT ![i].pc = "done",
                                  ![i].ok = (error = NoError),
                                  ![i].terminal = "execution_result",
                                  ![i].result = result,
                                  ![i].error = error]
  /\ vm' = [vm EXCEPT !.req = 0]
  /\ UNCHANGED <<running, nextId, connections, readyState, disk, changes, timers, timerProp, http, outside>>

\* executeCode after the inner try: execution_result is sent and the
\* handler returns
Respond(i, result, error) ==
  /\ received' = Send(received, requests[i].conn,
                      ExecutionResult(result, error, requests[i].language))
  /\ requests' = [requests EXCEPT ![i].pc = "done",
                                  ![i].ok = (error = NoError),
                                  ![i].terminal = "execution_result",
                                  ![i].result = result,
                                  ![i].error = error]
  /\ vm' = [vm EXCEPT !.req = 0]
  /\ UNCHANGED <<running, nextId, connections, readyState, disk, changes, timers, timerProp, http, outside>>

ResultOf(v) == IF v = Undefined THEN NoResult ELSE Stringify(v)

\* JSON.stringify throws on an object that refers to itself, every time;
\* on an object whose toJSON throws at its first call it throws once and
\* then yields what toJSON returns
Circular == Value("object: circular", "a")
ToJSONThrowsOnce == Value("object: toJSON throws once", "b")
Unserializable == {Circular, ToJSONThrowsOnce}
CircularError == <<"Converting circular structure to JSON">>
ToJSONError == <<"toJSON threw">>

\* vm.run returns the script's completion value
vm_return(i) ==
  /\ running
  /\ i \in 1..Len(requests)
  /\ vm.req = i
  /\ IF vm.ip > Len(requests[i].code)
       THEN Respond(i, NoResult, NoError)
       ELSE LET cur == requests[i].code[vm.ip]
            IN /\ cur.op \in {"return", "return global", "return setTimeout.x"}
               /\ cur.op = "return" => cur.arg \notin Unserializable
               /\ Respond(i, ResultOf(IF cur.op = "return" THEN cur.arg
                                      ELSE IF cur.op = "return global" THEN vm.global
                                      ELSE timerProp),
                          NoError)

\* vm.run returns an object that refers to itself: result holds the object,
\* JSON.stringify(result, null, 2) throws inside the inner try and the catch
\* stores the message in error; the JSON.stringify of the send then throws
\* on result again, and the outer catch sends execution_error
vm_return_circular(i) ==
  /\ AtInstr(i, {"return"})
  /\ requests[i].code[vm.ip].arg = Circular
  /\ received' = Send(received, requests[i].conn, ExecutionError(CircularError))
  /\ requests' = [requests EXCEPT ![i].pc = "done",
                                  ![i].terminal = "execution_error",
                                  ![i].error = CircularError]
  /\ vm' = [vm EXCEPT !.req = 0]
  /\ UNCHANGED <<running, nextId, connections, readyState, disk, changes, timers, timerProp, http, outside>>

\* vm.run returns an object whose toJSON throws at its first call: result
\* holds the object, the coercion throws and the catch stores the message
\* in error; the JSON.stringify of the send calls toJSON again and
\* serializes what it returns as result, beside the error
vm_return_toJSON(i) ==
  /\ AtInstr(i, {"return"})
  /\ requests[i].code[vm.ip].arg = ToJSONThrowsOnce
  /\ Respond(i, <<"JSON.stringify", ToJSONThrowsOnce.lit>>, ToJSONError)

\* vm.run throws what the script threw: catch (vmError)
vm_throw(i) ==
  /\ AtInstr(i, {"throw"})
  /\ Respond(i, NoResult, <<requests[i].code[vm.ip].arg.lit>>)

\* a VM with no timeout: the loop keeps running
vm_no_timeout(i) ==
  /\ AtInstr(i, {"while(true)"})
  /\ UNCHANGED vars

\* a timeout whose error is reported to every client
vm_timeout_all(i) ==
  /\ AtInstr(i, {"while(true)"})
  /\ received' = [d \in ConnIds |->
                   IF readyState[d] = "OPEN"
                     THEN Append(received[d],
                                 ExecutionResult(NoResult, TimedOut, requests[i].language))
                     ELSE received[d]]
  /\ requests' = [requests EXCEPT ![i].pc = "done",
                                  ![i].terminal = "execution_result",
                                  ![i].error = TimedOut]
  /\ vm' = [vm EXCEPT !.req = 0]
  /\ UNCHANGED <<running, nextId, connections, readyState, disk, changes, timers, timerProp, http, outside>>

\* vm.run throws when the script has run for the timeout of the VM
vm_timeout(i) ==
  /\ AtInstr(i, {"while(true)"})
  /\ Respond(i, NoResult, TimedOut)

RemoveAt(seq, k) == [j \in 1..(Len(seq) - 1) |-> IF j < k THEN seq[j] ELSE seq[j + 1]]

\* the script assigns a property of the setTimeout it was given.  Every
\* sandbox is given the same host function object, and vm2 passes a write
\* to an object of the host that is not frozen through to that object.
vm_assign_prop(i) ==
  /\ AtInstr(i, {"setTimeout.x ="})
  /\ timerProp' = requests[i].code[vm.ip].arg
  /\ vm' = [vm EXCEPT !.ip = @ + 1]
  /\ UNCHANGED <<running, nextId, connections, readyState, received, disk, requests, changes,
                 timers, http, outside>>

\* a host timer created by a script fires: its callback logs
timer_fire(k) ==
  /\ Idle
  /\ k \in 1..Len(timers)
  /\ received' = Send(received, requests[timers[k].req].conn, ConsoleOutput(timers[k].arg))
  /\ timers' = RemoveAt(timers, k)
  /\ UNCHANGED <<running, nextId, connections, readyState, disk, requests, changes, vm, timerProp, http, outside>>

\* ------------------------------------------------------------------ REST
\* res.json(body) / res.status(500).json(body) of exchange k
HttpResponse(status, body) == [pc |-> "done", status |-> status, body |-> body]

\* fs.readdir(WORKSPACE_DIR, {withFileTypes: true}) mapped to {name, type}
TopLevel(fsys) ==
  {[name |-> n[Len(n)],
    type |-> IF fsys[n].kind = "dir" THEN "directory" ELSE "file"] :
     n \in {m \in AllNodes : Len(m) = Len(WORKSPACE_DIR) + 1
                             /\ IsPrefix(WORKSPACE_DIR, m)
                             /\ fsys[m].kind # "absent"}}

\* a health handler that also tells every client
api_health_broadcast ==
  /\ Idle
  /\ Len(http) < MaxHttp
  /\ http' = Append(http, [route |-> "/api/health"]
                            @@ HttpResponse(200, [status |-> "ok"]))
  /\ received' = broadcastToAll(received, Failed("health", "ok"))
  /\ UNCHANGED <<running, nextId, connections, readyState, disk, requests, changes,
                 vm, timers, timerProp, outside>>

\* app.get('/api/health'): answers {status: 'ok', timestamp} at once; the
\* timestamp is a reading of the clock and is left out of the body
api_health ==
  /\ Idle
  /\ Len(http) < MaxHttp
  /\ http' = Append(http, [route |-> "/api/health"]
                            @@ HttpResponse(200, [status |-> "ok"]))
  /\ UNCHANGED <<running, nextId, connections, readyState, received, disk, requests,
                 changes, vm, timers, timerProp, outside>>

\* app.get('/api/files'): the handler starts fs.readdir and awaits it
api_files ==
  /\ Idle
  /\ Len(http) < MaxHttp
  /\ http' = Append(http, [route |-> "/api/files", pc |-> "readdir",
                           status |-> 0, body |-> [files |-> {}]])
  /\ UNCHANGED <<running, nextId, connections, readyState, received, disk, requests,
                 changes, vm, timers, timerProp, outside>>

\* fs.readdir completes: the entries of the workspace root as they are
\* now, or status 500 with the error when the root is not a directory
api_files_readdir(k) ==
  /\ Idle
  /\ k \in 1..Len(http)
  /\ http[k].pc = "readdir"
  /\ http' = [http EXCEPT ![k] =
                [route |-> "/api/files"]
                  @@ IF disk[WORKSPACE_DIR].kind = "dir"
                       THEN HttpResponse(200, [files |-> TopLevel(disk)])
                       ELSE HttpResponse(500, [error |-> IF disk[WORKSPACE_DIR].kind = "file"
                                                           THEN "ENOTDIR" ELSE "ENOENT"])]
  /\ UNCHANGED <<running, nextId, connections, readyState, received, disk, requests,
                 changes, vm, timers, timerProp, outside>>

\* -------------------------------------------------- Tool Process Manager
\* The manager's code (app/services/mcp) is not among the source files;
\* its operations follow section 4.4 of the specification.
ToolCall(op, id, outcome) == [op |-> op, id |-> id, outcome |-> outcome]

CanCall == Len(toolLog) < MaxToolCalls

\* start(toolKind): a new id, status starting
tool_start(kind) ==
  /\ CanCall
  /\ nextTool < MaxTools
  /\ nextTool' = nextTool + 1
  /\ tools' = [tools EXCEPT ![nextTool + 1] = [kind |-> kind, status |-> "starting"]]
  /\ toolLog' = Append(toolLog, ToolCall("start", nextTool + 1, "started"))
  /\ UNCHANGED exceptTools

\* the process signals readiness
tool_ready(t) ==
  /\ tools[t].status = "starting"
  /\ tools' = [tools EXCEPT ![t].status = "running"]
  /\ UNCHANGED <<exceptTools, nextTool, toolLog>>

\* launch errors or readiness times out
tool_launch_fails(t) ==
  /\ tools[t].status = "starting"
  /\ tools' = [tools EXCEPT ![t].status = "failed"]
  /\ UNCHANGED <<exceptTools, nextTool, toolLog>>

\* the underlying process crashes
tool_crash(t) ==
  /\ tools[t].status = "running"
  /\ tools' = [tools EXCEPT ![t].status = "failed"]
  /\ UNCHANGED <<exceptTools, nextTool, toolLog>>

\* a stop that raises for an id it does not track as live
tool_stop_raises(t) ==
  /\ CanCall
  /\ IF tools[t].status \in {"starting", "running"}
       THEN /\ tools' = [tools EXCEPT ![t].status = "stopped"]
            /\ toolLog' = Append(toolLog, ToolCall("stop", t, "success"))
       ELSE /\ toolLog' = Append(toolLog, ToolCall("stop", t, "raised"))
            /\ UNCHANGED tools
  /\ UNCHANGED <<exceptTools, nextTool>>

\* stop(processId) -> success | NotFound
tool_stop(t) ==
  /\ CanCall
  /\ IF tools[t].status \in {"starting", "running"}
       THEN /\ tools' = [tools EXCEPT ![t].status = "stopped"]
            /\ toolLog' = Append(toolLog, ToolCall("stop", t, "success"))
       ELSE /\ toolLog' = Append(toolLog, ToolCall("stop", t, "NotFound"))
            /\ UNCHANGED tools
  /\ UNCHANGED <<exceptTools, nextTool>>

\* an invoke that is routed to whatever handle the id has
tool_invoke_any(t) ==
  /\ CanCall
  /\ toolLog' = Append(toolLog, ToolCall("invoke", t,
                         IF tools[t].status = "running" THEN "result" ELSE "timeout"))
  /\ UNCHANGED <<exceptTools, nextTool, tools>>

\* invoke(processId, operation, args): routed only to a running process
tool_invoke(t) ==
  /\ CanCall
  /\ \E answer \in {"result", "timeout"} :
       toolLog' = Append(toolLog, ToolCall("invoke", t,
                           IF tools[t].status = "running" THEN answer
                                                          ELSE "process not running"))
  /\ UNCHANGED <<exceptTools, nextTool, tools>>

\* -------------------------------------------------------- sandbox server
\* app.listen callback: initBrowser() calls chromium.launch and awaits it
initBrowser ==
  /\ sandboxUp
  /\ chromium = "none"
  /\ chromium' = "starting"
  /\ UNCHANGED <<exceptSandbox, sandboxUp, browser, closing, atSigint, sandboxHttp>>

\* chromium.launch resolves: browser holds the handle
initBrowser_launched ==
  /\ sandboxUp
  /\ chromium = "starting"
  /\ chromium' = "running"
  /\ browser' = "handle"
  /\ UNCHANGED <<exceptSandbox, sandboxUp, closing, atSigint, sandboxHttp>>

\* chromium.launch rejects: the catch logs, browser stays undefined
initBrowser_fails ==
  /\ sandboxUp
  /\ chromium = "starting"
  /\ chromium' = "failed"
  /\ UNCHANGED <<exceptSandbox, sandboxUp, browser, closing, atSigint, sandboxHttp>>

\* the browser process dies; browser keeps the handle
chromium_crash ==
  /\ sandboxUp
  /\ chromium = "running"
  /\ chromium' = "failed"
  /\ UNCHANGED <<exceptSandbox, sandboxUp, browser, closing, atSigint, sandboxHttp>>

\* process.exit(0): the process is gone; a browser process that is still
\* alive is killed by the launcher's exit hook
ExitKills(st) == IF st \in {"starting", "running"} THEN "killed" ELSE st

Signals == Len(SelectSeq(sandboxHttp, LAMBDA r : r.route = "SIGINT"))

\* a SIGINT handler that does not wait for browser.close()
sigint_no_await ==
  /\ sandboxUp
  /\ Signals < MaxSigints
  /\ atSigint' = IF atSigint = "no SIGINT" THEN chromium ELSE atSigint
  /\ sandboxHttp' = Append(sandboxHttp, [route |-> "SIGINT"])
  /\ sandboxUp' = FALSE
  /\ chromium' = ExitKills(chromium)
  /\ UNCHANGED <<exceptSandbox, browser, closing>>

\* process.on('SIGINT'): with a browser the handler awaits browser.close(),
\* without one it exits at once
sigint ==
  /\ sandboxUp
  /\ Signals < MaxSigints
  /\ atSigint' = IF atSigint = "no SIGINT" THEN chromium ELSE atSigint
  /\ sandboxHttp' = Append(sandboxHttp, [route |-> "SIGINT"])
  /\ IF browser = "handle"
       THEN /\ closing' = closing + 1
            /\ UNCHANGED <<sandboxUp, chromium>>
       ELSE /\ sandboxUp' = FALSE
            /\ chromium' = ExitKills(chromium)
            /\ UNCHANGED closing
  /\ UNCHANGED <<exceptSandbox, browser>>

\* browser.close() resolves: the browser process has ended; the handler
\* goes on to process.exit(0)
sigint_closed ==
  /\ sandboxUp
  /\ closing > 0
  /\ chromium' = IF chromium = "running" THEN "stopped" ELSE chromium
  /\ sandboxUp' = FALSE
  /\ closing' = 0
  /\ UNCHANGED <<exceptSandbox, browser, atSigint, sandboxHttp>>

SandboxAnswers == Len(sandboxHttp) - Signals

\* app.get('/health')
sandbox_health ==
  /\ sandboxUp
  /\ SandboxAnswers < MaxSandboxHttp
  /\ sandboxHttp' = Append(sandboxHttp,
                      [route |-> "/health", status |-> 200,
                       body |-> [status |-> "ok", service |-> "sheikh-sandbox"]])
  /\ UNCHANGED <<exceptSandbox, sandboxUp, browser, chromium, closing, atSigint>>

\* the body POST /execute answers with: 400 without code; for javascript
\* the value vm.run returned as String(result), or the message of what it
\* threw; for another language the not-supported error
ExecuteAnswer(code, language) ==
  IF code = <<>>
    THEN [status |-> 400, body |-> [error |-> <<"Code is required">>]]
  ELSE [status |-> 200,
        body |-> [result |-> IF language = "javascript" /\ code[Len(code)].op = "return"
                                  /\ code[Len(code)].arg # Undefined
                               THEN <<"String", code[Len(code)].arg.lit>> ELSE <<>>,
                  error |-> IF language # "javascript"
                              THEN <<"Language is not supported yet", language>>
                            ELSE IF code[Len(code)].op = "throw"
                              THEN <<code[Len(code)].arg.lit>> ELSE <<>>,
                  language |-> language]]

\* app.post('/execute')
sandbox_execute(code, language) ==
  /\ sandboxUp
  /\ SandboxAnswers < MaxSandboxHttp
  /\ sandboxHttp' = Append(sandboxHttp, [route |-> "/execute"] @@ ExecuteAnswer(code, language))
  /\ UNCHANGED <<exceptSandbox, sandboxUp, browser, chromium, closing, atSigint>>

\* ------------------------------------------------------------ client App
\* wsService.onConnect
App_onConnect(c) ==
  /\ readyState[c] = "OPEN"
  /\ ~isConnected[c]
  /\ isConnected' = [isConnected EXCEPT ![c] = TRUE]
  /\ UNCHANGED <<exceptApp, isExecuting, files, appSent, handled>>

\* wsService.onDisconnect: the close event follows the messages that
\* arrived before it
App_onDisconnect(c) ==
  /\ readyState[c] \in {"CLOSING", "CLOSED"}
  /\ isConnected[c]
  /\ handled[c] = Len(received[c])
  /\ isConnected' = [isConnected EXCEPT ![c] = FALSE]
  /\ UNCHANGED <<exceptApp, isExecuting, files, appSent, handled>>

\* wsService.sendMessage(type, payload)
Message(type, payload) == [type |-> type, payload |-> payload]

\* the messages of c the server has taken
Taken(c) == Cardinality({i \in 1..Len(requests) : requests[i].conn = c})

\* the message of c that reaches the server next is m
Arrives(c, m) ==
  /\ Taken(c) < Len(appSent[c])
  /\ appSent[c][Taken(c) + 1] = m

\* wsService.onMessage -> handleServerMessage(message)
App_onMessage(c) ==
  /\ handled[c] < Len(received[c])
  /\ handled' = [handled EXCEPT ![c] = @ + 1]
  /\ LET message == received[c][handled[c] + 1]
     IN /\ isExecuting' = IF message.type \in {"execution_result", "execution_error"}
                            THEN [isExecuting EXCEPT ![c] = FALSE] ELSE isExecuting
        /\ files' = IF message.type = "file_list"
                      THEN [files EXCEPT ![c] = message.files] ELSE files
  /\ UNCHANGED <<exceptApp, isConnected, appSent>>

\* the number of messages the Apps have sent
RECURSIVE SentBy(_)
SentBy(n) == IF n = 0 THEN 0 ELSE Len(appSent[n]) + SentBy(n - 1)

SentTotal == SentBy(MaxConns)

\* App.executeCode(code, language)
App_executeCode(c, code, language) ==
  /\ isConnected[c]
  /\ isExecuting' = [isExecuting EXCEPT ![c] = TRUE]
  /\ appSent' = [appSent EXCEPT ![c] =
                   Append(@, Message("execute_code", [code |-> code, language |-> language]))]
  /\ UNCHANGED <<exceptApp, isConnected, files, handled>>

\* App.createFile(filePath): create_file, then loadFiles() sends list_files
App_createFile(c, filePath) ==
  /\ isConnected[c]
  /\ appSent' = [appSent EXCEPT ![c] =
                   @ \o <<Message("create_file", [filePath |-> filePath, content |-> <<>>]),
                          Message("list_files", [directory |-> <<".">>])>>]
  /\ UNCHANGED <<exceptApp, isConnected, isExecuting, files, handled>>

\* ------------------------------------------------------ WebSocketService
\* a socket: its readyState and, until its close event has been handled,
\* the code that event will carry
Socket(state, code) == [state |-> state, code |-> code]

\* connect(): returns at once while connecting or open; otherwise a new
\* WebSocket is created and becomes this.ws
Connect ==
  IF isConnecting \/ (thisWs # 0 /\ sockets[thisWs].state = "OPEN")
    THEN UNCHANGED <<thisWs, sockets, isConnecting>>
    ELSE /\ Len(sockets) < MaxSockets
         /\ isConnecting' = TRUE
         /\ sockets' = Append(sockets, Socket("CONNECTING", 0))
         /\ thisWs' = Len(sockets) + 1

\* the user of the service calls connect()
svc_connect ==
  /\ Connect
  /\ userDisconnected' = FALSE
  /\ UNCHANGED <<exceptService, reconnectAttempts, reconnectTimers, sinceOpen>>

\* an onopen that leaves the count of attempts as it is
ws_onopen_keep(s) ==
  /\ s \in 1..Len(sockets)
  /\ sockets[s].state = "CONNECTING"
  /\ sockets' = [sockets EXCEPT ![s].state = "OPEN"]
  /\ isConnecting' = FALSE
  /\ sinceOpen' = 0
  /\ UNCHANGED <<exceptService, thisWs, reconnectAttempts, reconnectTimers, userDisconnected>>

\* ws.onopen
ws_onopen(s) ==
  /\ s \in 1..Len(sockets)
  /\ sockets[s].state = "CONNECTING"
  /\ sockets' = [sockets EXCEPT ![s].state = "OPEN"]
  /\ isConnecting' = FALSE
  /\ reconnectAttempts' = 0
  /\ sinceOpen' = 0
  /\ UNCHANGED <<exceptService, thisWs, reconnectTimers, userDisconnected>>

\* ws.onerror: the connection could not be established; the close event
\* follows with code 1006
ws_onerror(s) ==
  /\ s \in 1..Len(sockets)
  /\ sockets[s].state = "CONNECTING"
  /\ sockets' = [sockets EXCEPT ![s] = Socket("FAILED", 1006)]
  /\ isConnecting' = FALSE
  /\ UNCHANGED <<exceptService, thisWs, reconnectAttempts, reconnectTimers, userDisconnected,
                 sinceOpen>>

\* the server or the network ends an open connection: the close event will
\* carry 1000 (normal closure) or 1006 (connection lost)
ws_drop(s, code) ==
  /\ s \in 1..Len(sockets)
  /\ sockets[s].state = "OPEN"
  /\ sockets' = [sockets EXCEPT ![s] = Socket("CLOSING", code)]
  /\ UNCHANGED <<exceptService, thisWs, reconnectAttempts, isConnecting, reconnectTimers,
                 userDisconnected, sinceOpen>>

\* Math.pow(2, n)
RECURSIVE Pow2(_)
Pow2(n) == IF n = 0 THEN 1 ELSE 2 * Pow2(n - 1)

\* ws.onclose(event), then scheduleReconnect() when the closure is not
\* normal and attempts remain
ws_onclose(s) ==
  /\ s \in 1..Len(sockets)
  /\ sockets[s].state \in {"FAILED", "CLOSING"}
  /\ sockets' = [sockets EXCEPT ![s] = Socket("CLOSED", 0)]
  /\ isConnecting' = FALSE
  /\ IF sockets[s].code # 1000 /\ reconnectAttempts < maxReconnectAttempts
       THEN /\ reconnectAttempts' = reconnectAttempts + 1
            /\ reconnectTimers' = Append(reconnectTimers,
                                    reconnectInterval * Pow2(reconnectAttempts + 1 - 1))
            /\ sinceOpen' = sinceOpen + 1
       ELSE UNCHANGED <<reconnectAttempts, reconnectTimers, sinceOpen>>
  /\ UNCHANGED <<exceptService, thisWs, userDisconnected>>

\* the timer of scheduleReconnect fires: this.connect()
reconnect_fires(k) ==
  /\ k \in 1..Len(reconnectTimers)
  /\ reconnectTimers' = [j \in 1..(Len(reconnectTimers) - 1) |->
                           IF j < k THEN reconnectTimers[j] ELSE reconnectTimers[j + 1]]
  /\ Connect
  /\ UNCHANGED <<exceptService, reconnectAttempts, userDisconnected, sinceOpen>>

\* disconnect(): this.ws.close(1000, ...) and this.ws = null.  Closing an
\* open socket ends in a close event with code 1000; closing a socket that
\* is still connecting fails the connection, and its close event carries
\* 1006.
svc_disconnect ==
  /\ ~userDisconnected
  /\ userDisconnected' = TRUE
  /\ thisWs' = 0
  /\ sockets' = IF thisWs = 0 THEN sockets
                ELSE IF sockets[thisWs].state = "OPEN"
                  THEN [sockets EXCEPT ![thisWs] = Socket("CLOSING", 1000)]
                ELSE IF sockets[thisWs].state = "CONNECTING"
                  THEN [sockets EXCEPT ![thisWs] = Socket("CLOSING", 1006)]
                ELSE sockets
  /\ UNCHANGED <<exceptService, reconnectAttempts, isConnecting, reconnectTimers, sinceOpen>>

\* ------------------------------------------------------------------ next
\* Handler positions the actions range over.
Slots == 1..MaxRequests

\* The hub protocol: clients attach and detach, send messages the
\* dispatcher cannot decode or does not know, and read example.js.
Next ==
  \/ wss_connection
  \/ \E c \in ConnIds : ws_closing(c)
  \/ \E c \in ConnIds : ws_close(c)
  \/ \E c \in ConnIds : ws_message_malformed(c)
  \/ \E c \in ConnIds, t \in UnknownTypes : handle_unknown(c, t)
  \/ \E c \in ConnIds : handle_read_file(c, ExamplePath)
  \/ \E i \in Slots : readFile(i)

Spec == Init /\ [][Next]_vars

\* The broadcast path: clients attach and detach and overwrite example.js,
\* and the watcher broadcasts each change to the registry.
NextBroadcast ==
  \/ wss_connection
  \/ \E c \in ConnIds : ws_closing(c)
  \/ \E c \in ConnIds : ws_close(c)
  \/ \E c \in ConnIds : Len(requests) < MaxBroadcastWrites
                          /\ handle_write_file(c, ExamplePath, ContentX)
  \/ \E i \in Slots : writeFile_ensureDir(i)
  \/ \E i \in Slots : writeFile_open(i)
  \/ \E i \in Slots : writeFile_write(i)
  \/ \E p \in FilePaths : watcher_change(p)

SpecBroadcast == Init /\ [][NextBroadcast]_vars

\* The store under concurrent mutation: clients write, create and delete
\* an existing and a new workspace file while the watcher broadcasts.
StorePaths == {ExamplePath, NewPath}

NextStore ==
  \/ wss_connection
  \/ \E c \in ConnIds : ws_closing(c)
  \/ \E c \in ConnIds : ws_close(c)
  \/ \E c \in ConnIds, p \in StorePaths, ct \in Contents : handle_write_file(c, p, ct)
  \/ \E c \in ConnIds, p \in StorePaths : handle_create_file(c, p, ContentY)
  \/ \E c \in ConnIds : handle_delete_file(c, ExamplePath)
  \/ \E i \in Slots : writeFile_ensureDir(i)
  \/ \E i \in Slots : writeFile_open(i)
  \/ \E i \in Slots : writeFile_write(i)
  \/ \E i \in Slots : createFile_ensureDir(i)
  \/ \E i \in Slots : createFile_open(i)
  \/ \E i \in Slots : createFile_write(i)
  \/ \E i \in Slots : deleteFile(i)
  \/ \E p \in FilePaths : watcher_change(p)

SpecStore == Init /\ [][NextStore]_vars

\* Path arguments: clients send every file request with paths inside and
\* outside the workspace root.
ConfinePaths == {ExamplePath, EscapePath}

NextConfine ==
  \/ wss_connection
  \/ \E c \in ConnIds, p \in ConfinePaths : handle_read_file(c, p)
  \/ \E c \in ConnIds, p \in ConfinePaths : handle_write_file(c, p, ContentX)
  \/ \E c \in ConnIds, p \in ConfinePaths : handle_create_file(c, p, <<>>)
  \/ \E c \in ConnIds, d \in ListDirs : handle_list_files(c, d)
  \/ \E c \in ConnIds, p \in ConfinePaths : handle_delete_file(c, p)
  \/ \E c \in ConnIds, p \in ConfinePaths, np \in RelPaths : handle_rename_file(c, p, np)
  \/ \E i \in Slots : readFile(i)
  \/ \E i \in Slots : writeFile_ensureDir(i)
  \/ \E i \in Slots : writeFile_open(i)
  \/ \E i \in Slots : writeFile_write(i)
  \/ \E i \in Slots : createFile_ensureDir(i)
  \/ \E i \in Slots : createFile_open(i)
  \/ \E i \in Slots : createFile_write(i)
  \/ \E i \in Slots : listFiles(i)
  \/ \E i \in Slots : deleteFile(i)
  \/ \E i \in Slots : renameFile_ensureDir(i)
  \/ \E i \in Slots : renameFile_move(i)
  \/ \E p \in FilePaths : watcher_change(p)

SpecConfine == Init /\ [][NextConfine]_vars

\* Request and response: clients read, overwrite and delete example.js
\* while the watcher broadcasts the changes.
AnsweredSlots == 1..MaxAnswered

NextAnswered ==
  \/ wss_connection
  \/ \E c \in ConnIds :
       DispatchUpTo(c, "read_file", ExamplePath, NoPath, <<>>, "readFile", MaxAnswered)
  \/ \E c \in ConnIds :
       DispatchUpTo(c, "write_file", ExamplePath, NoPath, ContentX, "ensureDir", MaxAnswered)
  \/ \E c \in ConnIds :
       DispatchUpTo(c, "delete_file", ExamplePath, NoPath, <<>>, "remove", MaxAnswered)
  \/ \E i \in AnsweredSlots : readFile(i)
  \/ \E i \in AnsweredSlots : writeFile_ensureDir(i)
  \/ \E i \in AnsweredSlots : writeFile_open(i)
  \/ \E i \in AnsweredSlots : writeFile_write(i)
  \/ \E i \in AnsweredSlots : deleteFile(i)
  \/ \E p \in FilePaths : watcher_change(p)

SpecAnswered == Init /\ [][NextAnswered]_vars

\* The sandbox: clients attach and detach and send execute_code with
\* scripts that log and then return a value, throw, or loop forever, and
\* with a language the server does not run.
Two == Value("number", "2")
Boom == Value("Error", "boom")

ExecScripts == {<<Log(Two), Return(Two)>>, <<Log(Two), Throw(Boom)>>, <<Log(Two), Forever>>}

NextExec ==
  \/ wss_connection
  \/ \E c \in ConnIds : ws_closing(c)
  \/ \E c \in ConnIds : ws_close(c)
  \/ \E c \in ConnIds, code \in ExecScripts : handle_execute_code(c, code, "javascript")
  \/ \E c \in ConnIds : handle_execute_unsupported(c, <<Log(Two), Return(Two)>>, "python")
  \/ \E c \in ConnIds : handle_execute_vm_fails(c, <<Return(Two)>>, "javascript")
  \/ \E i \in Slots : vm_log(i)
  \/ \E i \in Slots : vm_return(i)
  \/ \E i \in Slots : vm_throw(i)
  \/ \E i \in Slots : vm_timeout(i)

SpecExec == Init /\ [][NextExec]_vars

\* Timers: clients attach and detach and send scripts that pass a logging
\* callback to setTimeout and then return or loop forever.
Late == Value("string", "late")

TimerScripts == {<<Log(Two), SetTimeout(Late), Return(Two)>>, <<SetTimeout(Late), Forever>>}

NextTimers ==
  \/ wss_connection
  \/ \E c \in ConnIds : ws_closing(c)
  \/ \E c \in ConnIds : ws_close(c)
  \/ \E c \in ConnIds, code \in TimerScripts : handle_execute_code(c, code, "javascript")
  \/ \E i \in Slots : vm_log(i)
  \/ \E i \in Slots : vm_setTimeout(i)
  \/ \E i \in Slots : vm_return(i)
  \/ \E i \in Slots : vm_timeout(i)
  \/ \E k \in Slots : timer_fire(k)

SpecTimers == Init /\ [][NextTimers]_vars

\* Looping and prompt scripts: clients attach and detach and send a script
\* that loops forever or one that returns at once.  The interpreter keeps
\* running the script on the stack, and the VM's timeout fires.
LoopScript == <<Forever>>
PromptScript == <<Return(Two)>>

NextLoop ==
  \/ wss_connection
  \/ \E c \in ConnIds : ws_closing(c)
  \/ \E c \in ConnIds : ws_close(c)
  \/ \E c \in ConnIds, code \in {LoopScript, PromptScript} :
       handle_execute_code(c, code, "javascript")
  \/ \E i \in Slots : vm_return(i)
  \/ \E i \in Slots : vm_timeout(i)

VmStep == \E i \in Slots : vm_return(i) \/ vm_timeout(i)

FairLoop == Init /\ [][NextLoop]_vars /\ WF_vars(VmStep)

\* A script beside other work: clients read and overwrite example.js and
\* send a script that loops forever, while the watcher broadcasts.
NextBusy ==
  \/ wss_connection
  \/ \E c \in ConnIds : handle_read_file(c, ExamplePath)
  \/ \E c \in ConnIds : handle_write_file(c, ExamplePath, ContentX)
  \/ \E c \in ConnIds : handle_execute_code(c, LoopScript, "javascript")
  \/ \E i \in Slots : readFile(i)
  \/ \E i \in Slots : writeFile_ensureDir(i)
  \/ \E i \in Slots : writeFile_open(i)
  \/ \E i \in Slots : writeFile_write(i)
  \/ \E i \in Slots : vm_timeout(i)
  \/ \E p \in FilePaths : watcher_change(p)

SpecBusy == Init /\ [][NextBusy]_vars

\* Successive executions: clients send scripts that assign a global or a
\* property of setTimeout, and scripts that return the one or the other.
FreshScripts ==
  {<<Assign(Two), Return(Two)>>, <<ReturnGlobal>>,
   <<AssignProp(Two), Return(Two)>>, <<ReturnProp>>}

NextFresh ==
  \/ wss_connection
  \/ \E c \in ConnIds, code \in FreshScripts : handle_execute_code(c, code, "javascript")
  \/ \E i \in Slots : vm_assign(i)
  \/ \E i \in Slots : vm_assign_prop(i)
  \/ \E i \in Slots : vm_return(i)

SpecFresh == Init /\ [][NextFresh]_vars

\* Completion values: clients send scripts that return a number, an
\* object, nothing, an object JSON.stringify cannot serialize, or throw,
\* and a script in a language the server does not run.
Obj == Value("object", "{}")

CoerceScripts ==
  {<<Return(Two)>>, <<Return(Obj)>>, <<Log(Two)>>, <<Throw(Boom)>>,
   <<Return(Circular)>>, <<Return(ToJSONThrowsOnce)>>}

NextCoerce ==
  \/ wss_connection
  \/ \E c \in ConnIds, code \in CoerceScripts : handle_execute_code(c, code, "javascript")
  \/ \E c \in ConnIds : handle_execute_unsupported(c, <<Return(Two)>>, "python")
  \/ \E c \in ConnIds : handle_execute_vm_fails(c, <<Return(Two)>>, "javascript")
  \/ \E i \in Slots : vm_log(i)
  \/ \E i \in Slots : vm_return(i)
  \/ \E i \in Slots : vm_throw(i)
  \/ \E i \in Slots : vm_return_circular(i)
  \/ \E i \in Slots : vm_return_toJSON(i)

SpecCoerce == Init /\ [][NextCoerce]_vars

\* Renaming: clients rename example.js and a.txt, which exists only once
\* example.js was renamed to it, to a.txt and into a directory that does
\* not exist yet.
RenameSources == {ExamplePath, NewPath}
RenameTargets == {NewPath, DeepPath}

NextRename ==
  \/ wss_connection
  \/ \E c \in ConnIds, p \in RenameSources, np \in RenameTargets : handle_rename_file(c, p, np)
  \/ \E i \in Slots : renameFile_ensureDir(i)
  \/ \E i \in Slots : renameFile_move(i)

SpecRename == Init /\ [][NextRename]_vars

\* the watcher's ignore pattern: writes and creations of hidden and of
\* visible paths
HiddenPaths == {HiddenPath, HiddenDirPath}

NextHidden ==
  \/ wss_connection
  \/ \E c \in ConnIds, p \in HiddenPaths \cup {ExamplePath} :
       handle_write_file(c, p, ContentX)
  \/ \E c \in ConnIds, p \in HiddenPaths \cup {NewPath} :
       handle_create_file(c, p, ContentY)
  \/ \E i \in Slots : writeFile_ensureDir(i)
  \/ \E i \in Slots : writeFile_open(i)
  \/ \E i \in Slots : writeFile_write(i)
  \/ \E i \in Slots : createFile_ensureDir(i)
  \/ \E i \in Slots : createFile_open(i)
  \/ \E i \in Slots : createFile_write(i)
  \/ \E p \in FilePaths : watcher_change(p)

SpecHidden == Init /\ [][NextHidden]_vars

\* the REST endpoints next to a client that creates a file
HttpSlots == 1..MaxHttp

NextRest ==
  \/ wss_connection
  \/ \E c \in ConnIds : Len(requests) < MaxBroadcastWrites
                          /\ handle_create_file(c, NewPath, ContentY)
  \/ \E i \in Slots : createFile_ensureDir(i)
  \/ \E i \in Slots : createFile_open(i)
  \/ \E i \in Slots : createFile_write(i)
  \/ api_health
  \/ api_files
  \/ \E k \in HttpSlots : api_files_readdir(k)

SpecRest == Init /\ [][NextRest]_vars

\* the Tool Process Manager on its own
NextTools ==
  \/ \E kind \in ToolKinds : tool_start(kind)
  \/ \E t \in ToolIds : tool_ready(t)
  \/ \E t \in ToolIds : tool_launch_fails(t)
  \/ \E t \in ToolIds : tool_crash(t)
  \/ \E t \in ToolIds : tool_stop(t)
  \/ \E t \in ToolIds : tool_invoke(t)

SpecTools == Init /\ [][NextTools]_vars

\* the sandbox server: its browser, its endpoints and SIGINT
SandboxScripts == {<<>>, <<Return(Two)>>, <<Throw(Boom)>>}

NextSandbox ==
  \/ initBrowser
  \/ initBrowser_launched
  \/ initBrowser_fails
  \/ chromium_crash
  \/ sigint
  \/ sigint_closed
  \/ sandbox_health
  \/ \E code \in SandboxScripts, language \in {"javascript", "python"} :
       sandbox_execute(code, language)

SpecSandbox == Init /\ [][NextSandbox]_vars

\* readers next to one writer
ReadPaths == {ExamplePath, NewPath}
ReadDirs == {<<>>, <<"d">>}

NextReaders ==
  \/ wss_connection
  \/ \E c \in ConnIds, p \in ReadPaths : handle_read_file(c, p)
  \/ \E c \in ConnIds, d \in ReadDirs : handle_list_files(c, d)
  \/ \E c \in ConnIds : requests = <<>> /\ handle_write_file(c, ExamplePath, ContentX)
  \/ \E i \in Slots : readFile(i)
  \/ \E i \in Slots : listFiles(i)
  \/ \E i \in Slots : writeFile_ensureDir(i)
  \/ \E i \in Slots : writeFile_open(i)
  \/ \E i \in Slots : writeFile_write(i)
  \/ \E p \in FilePaths : watcher_change(p)

SpecReaders == Init /\ [][NextReaders]_vars

\* the App creating files: each createFile sends create_file and list_files
CreateSlots == 1..(2 * MaxCreates)

NextCreate ==
  \/ wss_connection
  \/ \E c \in ConnIds : App_onConnect(c)
  \/ \E c \in ConnIds : SentTotal < 2 * MaxCreates /\ App_createFile(c, NewPath)
  \/ \E c \in ConnIds :
       /\ Arrives(c, Message("create_file", [filePath |-> NewPath, content |-> <<>>]))
       /\ DispatchUpTo(c, "create_file", NewPath, NoPath, <<>>, "ensureDir", 2 * MaxCreates)
  \/ \E c \in ConnIds :
       /\ Arrives(c, Message("list_files", [directory |-> <<".">>]))
       /\ DispatchUpTo(c, "list_files", <<".">>, NoPath, <<>>, "readdir", 2 * MaxCreates)
  \/ \E i \in CreateSlots : createFile_ensureDir(i)
  \/ \E i \in CreateSlots : createFile_open(i)
  \/ \E i \in CreateSlots : createFile_write(i)
  \/ \E i \in CreateSlots : listFiles(i)
  \/ \E c \in ConnIds : App_onMessage(c)

SpecCreate == Init /\ [][NextCreate]_vars

\* the WebSocketService, its user calling connect() while no reconnect is
\* pending, against a server that accepts, refuses and drops connections
SocketIds == 1..MaxSockets
CloseCodes == {1000, 1006}

NextReconnect ==
  \/ reconnectTimers = <<>> /\ svc_connect
  \/ \E s \in SocketIds : ws_onopen(s)
  \/ \E s \in SocketIds : ws_onerror(s)
  \/ \E s \in SocketIds, code \in CloseCodes : ws_drop(s, code)
  \/ \E s \in SocketIds : ws_onclose(s)
  \/ \E k \in SocketIds : reconnect_fires(k)

SpecReconnect == Init /\ [][NextReconnect]_vars

\* the WebSocketService with a user who also calls disconnect(), as long
\* as it has created fewer than three sockets
FewSockets == Len(sockets) < 3

NextDisconnect ==
  \/ FewSockets /\ svc_connect
  \/ svc_disconnect
  \/ \E s \in SocketIds : ws_onopen(s)
  \/ \E s \in SocketIds : ws_onerror(s)
  \/ \E s \in SocketIds, code \in CloseCodes : ws_drop(s, code)
  \/ \E s \in SocketIds : ws_onclose(s)
  \/ \E k \in SocketIds : FewSockets /\ reconnect_fires(k)

SpecDisconnect == Init /\ [][NextDisconnect]_vars

\* ------------------------------------------------------------ ChatPage
\* The chat page of src/frontend/src/pages/ChatPage.vue: the tool panel
\* emits execute-tool, handleExecuteTool pushes a message and awaits the
\* POST; the event stream pushes tool messages of its own.

\* the parameters a tool panel submits
ToolParams == {1, 2}

\* a field that was never assigned
Unset == <<>>

\* { tool, status: 'started', timestamp }
StartedMessage(tool) ==
  [tool |-> tool, status |-> "started", result |-> Unset, error |-> Unset]

\* what the server answers to POST /tools {tool, params}: data.data of a
\* success, data.msg of a failure
ToolData(tool, params) == <<"data", tool, params>>
ToolMsg(tool, params) == <<"msg", tool, params>>
FetchError == <<"Failed to fetch">>

\* this.messages.findIndex(msg => msg.tool === tool && msg.status === 'started')
RECURSIVE findIndexFrom(_, _, _)
findIndexFrom(msgs, tool, k) ==
  IF k > Len(msgs) THEN 0
  ELSE IF msgs[k].tool = tool /\ msgs[k].status = "started" THEN k
  ELSE findIndexFrom(msgs, tool, k + 1)

findIndex(msgs, tool) == findIndexFrom(msgs, tool, 1)

\* handleExecuteTool(toolData), up to the await of fetch
handleExecuteTool(tool, params) ==
  /\ Len(executions) < MaxExecutions
  /\ messages' = Append(messages, StartedMessage(tool))
  /\ executions' = Append(executions, [tool |-> tool, params |-> params, pc |-> "await",
                                        index |-> Len(messages) + 1])
  /\ UNCHANGED <<exceptChat, toolEvents>>

\* the message index toolIndex is updated with the fields of patch
UpdateAt(toolIndex, patch) ==
  IF toolIndex = 0 THEN messages
  ELSE [messages EXCEPT ![toolIndex] =
          [f \in DOMAIN @ |-> IF f \in DOMAIN patch THEN patch[f] ELSE @[f]]]

\* handleExecuteTool after the await: response.json() has code and data
\* or msg; the first started message of the tool is updated
handleExecuteTool_response(e, code) ==
  /\ e \in 1..Len(executions)
  /\ executions[e].pc = "await"
  /\ LET tool == executions[e].tool
         params == executions[e].params
         toolIndex == findIndex(messages, tool)
     IN messages' =
          IF code = 0
            THEN UpdateAt(toolIndex, [status |-> "completed", result |-> ToolData(tool, params)])
            ELSE UpdateAt(toolIndex, [status |-> "error", error |-> ToolMsg(tool, params)])
  /\ executions' = [executions EXCEPT ![e].pc = "done"]
  /\ UNCHANGED <<exceptChat, toolEvents>>

\* handleExecuteTool, catch: fetch or response.json() rejected
handleExecuteTool_catch(e) ==
  /\ e \in 1..Len(executions)
  /\ executions[e].pc = "await"
  /\ messages' = UpdateAt(findIndex(messages, executions[e].tool),
                          [status |-> "error", error |-> FetchError])
  /\ executions' = [executions EXCEPT ![e].pc = "done"]
  /\ UNCHANGED <<exceptChat, toolEvents>>

\* handleToolEvent(event): the message of the event is pushed as it is
handleToolEvent(tool, status) ==
  /\ toolEvents < MaxToolEvents
  /\ toolEvents' = toolEvents + 1
  /\ messages' = Append(messages, [tool |-> tool, status |-> status,
                                   result |-> Unset, error |-> Unset])
  /\ UNCHANGED <<exceptChat, executions>>

\* the response codes of POST /tools: 0 is success
ResponseCodes == {0, 1}

ExecutionIds == 1..MaxExecutions

NextChat ==
  \/ \E tool \in ToolKinds, params \in ToolParams : handleExecuteTool(tool, params)
  \/ \E e \in ExecutionIds, code \in ResponseCodes : handleExecuteTool_response(e, code)
  \/ \E e \in ExecutionIds : handleExecuteTool_catch(e)
  \/ \E tool \in ToolKinds, status \in {"started", "completed"} : handleToolEvent(tool, status)

SpecChat == Init /\ [][NextChat]_vars

\* the App running scripts over connections that can be lost
RunScripts == {<<Return(Two)>>, <<Throw(Boom)>>}

ExecuteMessage(code) == Message("execute_code", [code |-> code, language |-> "javascript"])

NextExecuting ==
  \/ wss_connection
  \/ \E c \in ConnIds : ws_closing(c)
  \/ \E c \in ConnIds : ws_close(c)
  \/ \E c \in ConnIds : App_onConnect(c)
  \/ \E c \in ConnIds : App_onDisconnect(c)
  \/ \E c \in ConnIds, code \in RunScripts :
       SentTotal < MaxRequests /\ App_executeCode(c, code, "javascript")
  \/ \E c \in ConnIds, code \in RunScripts :
       Arrives(c, ExecuteMessage(code)) /\ handle_execute_code(c, code, "javascript")
  \/ \E c \in ConnIds, code \in RunScripts :
       Arrives(c, ExecuteMessage(code)) /\ handle_execute_vm_fails(c, code, "javascript")
  \/ \E i \in Slots : vm_return(i)
  \/ \E i \in Slots : vm_throw(i)
  \/ \E c \in ConnIds : App_onMessage(c)

SpecExecuting == Init /\ [][NextExecuting]_vars

\* ============================================================== properties
Full(p) == PathJoin(WORKSPACE_DIR, p)

Done(i) == requests[i].pc = "done"

AllDone == \A i \in 1..Len(requests) : Done(i)

\* nothing is in flight: every handler has returned and the watcher has
\* emitted every notification
Quiet == running /\ AllDone /\ \A p \in FilePaths : changes[p] = 0

Events(c) == {received[c][k] : k \in 1..Len(received[c])}

\* the contents of the file_changed events connection c received for the
\* relative path p, in the order received
ChangedContents(c, p) ==
  LET evs == SelectSeq(received[c], LAMBDA e : e.type = "file_changed" /\ e.path = p)
  IN [k \in 1..Len(evs) |-> evs[k].content]

CountOf(seq, x) == Cardinality({k \in 1..Len(seq) : seq[k] = x})

\* C1: no read_file or list_files answer carries content from outside the
\* workspace root: every file_content and file_list event a client has
\* received names a path that resolves inside WORKSPACE_DIR.
C1_ReadConfinement ==
  \A c \in ConnIds : \A e \in Events(c) :
    e.type \in {"file_content", "file_list"} => InsideRoot(Full(e.path))

\* C2: whatever write_file, create_file, delete_file and rename_file
\* requests were handled, every file and directory outside the workspace
\* root is as it was when the server started.
C2_MutationConfinement ==
  \A n \in AllNodes : ~InsideRoot(n) => disk[n] = InitialDisk[n]

\* a write_file or create_file request whose success event was sent
StoreWritten(i) ==
  /\ requests[i].type \in {"write_file", "create_file"}
  /\ requests[i].ok

\* the acknowledged writes of content ct to path p that connection c was
\* attached to with an open transport
WritesSeenBy(c, p, ct) ==
  {j \in 1..Len(requests) :
     /\ StoreWritten(j)
     /\ requests[j].filePath = p
     /\ requests[j].content = ct
     /\ c \in requests[j].audience}

\* C3: once nothing is in flight, every connection that was attached with
\* an open transport when a write_file of content X to a path was applied,
\* and still is, has received file_changed with that path and content X
\* once for each such write: not fewer times, not more.
C3_BroadcastFidelity ==
  Quiet =>
    \A i \in 1..Len(requests) :
      (requests[i].type = "write_file" /\ requests[i].ok) =>
        \A c \in requests[i].audience :
          readyState[c] = "OPEN" =>
            CountOf(ChangedContents(c, requests[i].filePath), requests[i].content)
              = Cardinality(WritesSeenBy(c, requests[i].filePath, requests[i].content))

\* C4: once nothing is in flight, every acknowledged create_file or
\* write_file, on a new path as on an existing one, has reached each
\* connection attached at the time (and still open) as at least one
\* file_changed event with the relative path and the content written.
C4_MutationBroadcast ==
  Quiet =>
    \A i \in 1..Len(requests) :
      StoreWritten(i) =>
        \A c \in requests[i].audience :
          readyState[c] = "OPEN" =>
            FileChanged(PathRelative(WORKSPACE_DIR, Full(requests[i].filePath)),
                        requests[i].content) \in Events(c)

\* C5: the server process keeps running, and the registry holds every
\* connection whose transport has not closed.
C5_ServerKeepsRunning ==
  /\ running
  /\ \A c \in ConnIds : readyState[c] \in {"OPEN", "CLOSING"} => c \in Registered

\* the requests that mutate path p
Mutators(p) ==
  {i \in 1..Len(requests) :
     /\ requests[i].type \in {"write_file", "create_file", "delete_file", "rename_file"}
     /\ (requests[i].filePath = p \/ requests[i].newPath = p)}

\* C6: when two connections have submitted write_file for the same path,
\* no other request mutates it and both handlers have returned, the file
\* holds exactly the content of the write submitted last.
C6_LastSubmittedWins ==
  \A i \in 1..Len(requests) : \A j \in 1..Len(requests) :
    ( /\ i < j
      /\ requests[i].type = "write_file" /\ requests[j].type = "write_file"
      /\ requests[i].filePath = requests[j].filePath
      /\ requests[i].conn # requests[j].conn
      /\ Mutators(requests[i].filePath) = {i, j}
      /\ Done(i) /\ Done(j) )
    => disk[Full(requests[j].filePath)] = File(requests[j].content)

\* the contents of the acknowledged writes to path p in the order they
\* were applied to the store
RECURSIVE AppliedFrom(_, _)
AppliedFrom(p, k) ==
  IF k > Len(requests) THEN <<>>
  ELSE LET at == {i \in 1..Len(requests) : requests[i].applied = k /\ requests[i].filePath = p}
       IN (IF at = {} THEN <<>> ELSE <<requests[CHOOSE i \in at : TRUE].content>>)
          \o AppliedFrom(p, k + 1)

AppliedContents(p) == AppliedFrom(p, 1)

\* C7: once nothing is in flight, a connection that was attached with an
\* open transport at every one of two or more successive writes of a path,
\* and still is, has received for that path exactly the file_changed
\* contents of those writes, each once, in the order the writes were
\* applied to the store.
C7_BroadcastOrder ==
  Quiet =>
    \A p \in RelPaths : \A c \in ConnIds :
      LET W == {i \in 1..Len(requests) : StoreWritten(i) /\ requests[i].filePath = p}
      IN ( /\ Cardinality(W) >= 2
           /\ readyState[c] = "OPEN"
           /\ \A i \in W : c \in requests[i].audience )
         => ChangedContents(c, p) = AppliedContents(p)

\* the step in which the server receives a message of type t from c
Receives(c, t) ==
  /\ Len(requests') = Len(requests) + 1
  /\ requests'[Len(requests')].conn = c
  /\ requests'[Len(requests')].type = t

OthersUntouched(c) == \A d \in ConnIds \ {c} : received'[d] = received[d]

\* C8: a request with an unknown type adds exactly one error event to what
\* its sender has received and nothing to what any other connection has
\* received, and leaves the disk, the pending change notifications and the
\* registry as they were.
C8_UnknownTypeLocal ==
  [][\A c \in ConnIds : \A t \in UnknownTypes :
       Receives(c, t) =>
         /\ received'[c] = Append(received[c], ErrorEvent(<<"Unknown message type", t>>))
         /\ OthersUntouched(c)
         /\ disk' = disk
         /\ changes' = changes
         /\ connections' = connections
         /\ readyState' = readyState]_vars

\* an unknown-type request was answered while another client was attached
C8_Witness ==
  \E i \in 1..Len(requests) : \E d \in ConnIds :
    /\ requests[i].type \in UnknownTypes
    /\ d # requests[i].conn
    /\ readyState[d] = "OPEN"
    /\ ErrorEvent(<<"Unknown message type", requests[i].type>>) \in Events(requests[i].conn)

\* C9: a message that cannot be decoded adds exactly one 'Invalid message
\* format' error to what its sender has received and nothing to any other
\* connection, and the sender's transport stays open and registered.
C9_MalformedKeepsOpen ==
  [][\A c \in ConnIds :
       Receives(c, "malformed") =>
         /\ received'[c] = Append(received[c], ErrorEvent(<<"Invalid message format">>))
         /\ OthersUntouched(c)
         /\ readyState'[c] = "OPEN"
         /\ c \in {connections'[k] : k \in 1..Len(connections')}
         /\ running']_vars

\* after its malformed message a client sent read_file and was served
C9_Witness ==
  \E i \in 1..Len(requests) : \E j \in 1..Len(requests) : \E d \in ConnIds :
    /\ i < j
    /\ requests[i].type = "malformed"
    /\ requests[j].conn = requests[i].conn
    /\ requests[j].type = "read_file"
    /\ requests[j].ok
    /\ d # requests[i].conn
    /\ readyState[d] = "OPEN"
    /\ received[d] = <<>>
    /\ \E k \in 1..Len(received[requests[i].conn]) : \E m \in 1..Len(received[requests[i].conn]) :
         /\ k < m
         /\ received[requests[i].conn][k] = ErrorEvent(<<"Invalid message format">>)
         /\ received[requests[i].conn][m].type = "file_content"

\* C10: when the watcher broadcasts, every registered connection whose
\* transport is open receives the event, once, every other connection
\* receives nothing, and the server keeps running with the registry
\* unchanged, wherever the closed transports stand in the registry.
C10_BroadcastSkipsClosed ==
  [][\A p \in FilePaths :
       (changes'[p] = changes[p] - 1 /\ disk[p].kind = "file") =>
         /\ \A c \in ConnIds :
              received'[c] =
                IF c \in Registered /\ readyState[c] = "OPEN"
                  THEN Append(received[c],
                              FileChanged(PathRelative(WORKSPACE_DIR, p), disk[p].data))
                  ELSE received[c]
         /\ running'
         /\ connections' = connections]_vars

\* a broadcast reached an open connection registered after a connection
\* whose transport was closing
C10_Witness ==
  /\ Len(connections) = 2
  /\ readyState[connections[1]] = "CLOSING"
  /\ readyState[connections[2]] = "OPEN"
  /\ \A e \in Events(connections[1]) : e.type # "file_changed"
  /\ \E e \in Events(connections[2]) : e.type = "file_changed"

\* the step in which the handler of request i returns
Returns(i) == i \in 1..Len(requests) /\ ~Done(i) /\ requests'[i].pc = "done"

\* C11: the close handler removes the connection from the registry; a
\* connection whose transport has left OPEN receives nothing more, neither
\* a broadcast nor a response; and when the handler of a request returns
\* after its connection's transport left OPEN, the response is dropped: no
\* connection receives anything, the server keeps running and the registry
\* is unchanged.
C11_DetachDropsSilently ==
  [][/\ \A c \in ConnIds :
          /\ (readyState[c] = "CLOSING" /\ readyState'[c] = "CLOSED")
               => ( /\ c \in Registered
                    /\ connections' = RemoveConn(connections, c) )
          /\ readyState[c] # "OPEN" => received'[c] = received[c]
     /\ \A i \in Slots :
          (Returns(i) /\ readyState[requests[i].conn] # "OPEN")
            => ( /\ received' = received
                 /\ running'
                 /\ connections' = connections )]_vars

\* a write was applied after its sender had detached: the sender received
\* no acknowledgment and no broadcast, and the client still attached
\* received the broadcast of that write
C11_Witness ==
  \E i \in 1..Len(requests) : \E d \in ConnIds :
    /\ requests[i].ok
    /\ requests[i].conn \notin requests[i].audience
    /\ readyState[requests[i].conn] = "CLOSED"
    /\ requests[i].conn \notin Registered
    /\ received[requests[i].conn] = <<>>
    /\ d \in Registered
    /\ readyState[d] = "OPEN"
    /\ \E e \in Events(d) : e.type = "file_changed"
    /\ running

FileRequestTypes ==
  {"read_file", "write_file", "list_files", "create_file", "delete_file", "rename_file"}

\* the success event of a file request type
SuccessType(t) ==
  IF t = "read_file" THEN "file_content"
  ELSE IF t = "write_file" THEN "file_written"
  ELSE IF t = "list_files" THEN "file_list"
  ELSE IF t = "create_file" THEN "file_created"
  ELSE IF t = "delete_file" THEN "file_deleted"
  ELSE "file_renamed"

CountEvents(c, types) == Cardinality({k \in 1..Len(received[c]) : received[c][k].type \in types})

FileRequestsOf(c) ==
  {i \in 1..Len(requests) : requests[i].conn = c /\ requests[i].type \in FileRequestTypes}

\* C12: for a connection whose transport is open, every file request it
\* sent is answered exactly once: the success events of each type it has
\* received are as many as its requests of the matching type that
\* succeeded, the error events as many as its requests that failed, and a
\* request not yet answered belongs to a server that is still running and
\* so will answer it.
C12_ExactlyOneResponse ==
  \A c \in ConnIds :
    readyState[c] = "OPEN" =>
      /\ \A t \in FileRequestTypes :
           CountEvents(c, {SuccessType(t)})
             = Cardinality({i \in FileRequestsOf(c) : requests[i].type = t /\ requests[i].ok})
      /\ CountEvents(c, {"error"})
           = Cardinality({i \in FileRequestsOf(c) : Done(i) /\ ~requests[i].ok})
      /\ (\E i \in FileRequestsOf(c) : ~Done(i)) => running

Terminals == {"execution_result", "execution_error"}

ExecRequestsOf(c) ==
  {i \in 1..Len(requests) : requests[i].conn = c /\ requests[i].type = "execute_code"}

C14_OutputBeforeResult ==
  \A c \in ConnIds : \A m \in 1..Len(received[c]) :
    received[c][m].type = "console_output" =>
      Cardinality({k \in 1..(m - 1) : received[c][k].type \in Terminals})
        < Cardinality(ExecRequestsOf(c))

IsExec(i, code) ==
  /\ i \in 1..Len(requests)
  /\ requests[i].type = "execute_code"
  /\ requests[i].code = code

\* the handler of request i sent execution_result with this result and error
Answered(i, result, error) ==
  /\ i \in 1..Len(requests)
  /\ Done(i)
  /\ requests[i].terminal = "execution_result"
  /\ requests[i].result = result
  /\ requests[i].error = error
  /\ ExecutionResult(result, error, requests[i].language) \in Events(requests[i].conn)

\* C15: an execute_code request with language javascript whose script
\* loops forever is eventually answered with an execution_result whose
\* error is the timeout error and whose result is not populated.
C15_TimeoutContainment ==
  \A i \in Slots :
    (IsExec(i, LoopScript) /\ requests[i].language \in JsLanguages)
      ~> Answered(i, NoResult, TimedOut)

\* a looping script was answered with the timeout error while a second
\* client was attached, and the server took a further request afterwards
C15_Witness ==
  \E i \in 1..Len(requests) : \E d \in ConnIds :
    /\ IsExec(i, LoopScript)
    /\ Answered(i, NoResult, TimedOut)
    /\ d # requests[i].conn
    /\ readyState[d] = "OPEN"
    /\ Len(requests) > i
    /\ running

\* the execution_result events connection c has received that carry error
CountErrors(c, error) ==
  Cardinality({k \in 1..Len(received[c]) :
                 received[c][k].type = "execution_result" /\ received[c][k].error = error})

\* C16: every prompt script is eventually answered with its own value and
\* error null, whatever looping scripts other connections have sent; and
\* each connection has received the timeout error exactly once for each
\* looping script it sent itself, and a result without error exactly once
\* for each prompt script it sent itself.
C16_Isolation ==
  /\ [](\A c \in ConnIds :
          /\ CountErrors(c, TimedOut)
               = Cardinality({i \in ExecRequestsOf(c) : IsExec(i, LoopScript) /\ Done(i)})
          /\ CountErrors(c, NoError)
               = Cardinality({i \in ExecRequestsOf(c) : IsExec(i, PromptScript) /\ Done(i)}))
  /\ \A i \in Slots :
       IsExec(i, PromptScript) ~> Answered(i, Stringify(Two), NoError)

\* a looping and a prompt script of different connections have both been
\* answered: the prompt one with its value, the looping one with the
\* timeout error, each on its own connection only
C16_Witness ==
  \E i \in 1..Len(requests) : \E j \in 1..Len(requests) :
    /\ IsExec(i, LoopScript) /\ IsExec(j, PromptScript)
    /\ requests[i].conn # requests[j].conn
    /\ Answered(i, NoResult, TimedOut)
    /\ Answered(j, Stringify(Two), NoError)
    /\ received[requests[i].conn] = <<ExecutionResult(NoResult, TimedOut, "javascript")>>
    /\ received[requests[j].conn] = <<ExecutionResult(Stringify(Two), NoError, "javascript")>>

\* C17: while the script of one connection is running, the server can
\* still complete the pending read of another connection and the watcher
\* can still broadcast a pending change.
C17_ScriptDoesNotBlock ==
  (running /\ vm.req # 0) =>
    /\ \A i \in 1..Len(requests) :
         (requests[i].pc = "readFile" /\ requests[i].conn # requests[vm.req].conn)
           => ENABLED readFile(i)
    /\ \A p \in FilePaths : changes[p] > 0 => ENABLED watcher_change(p)

\* C18: once the handler of an execute_code request has sent its terminal
\* event, no timer created by the request's script is pending on the host.
C18_TimersReleased ==
  \A i \in 1..Len(requests) :
    (requests[i].type = "execute_code" /\ Done(i)) =>
      \A k \in 1..Len(timers) : timers[k].req # i

\* the step in which the script of request i calls console.log
LogCall(i) ==
  /\ i \in 1..Len(requests)
  /\ vm.req = i
  /\ vm.ip <= Len(requests[i].code)
  /\ requests[i].code[vm.ip].op = "console.log"
  /\ vm'.req = i
  /\ vm'.ip = vm.ip + 1

RECURSIVE RunAlone(_, _, _, _)
RunAlone(code, ip, g, h) ==
  IF ip > Len(code) THEN [result |-> NoResult, error |-> NoError]
  ELSE LET cur == code[ip]
       IN IF cur.op = "return" THEN [result |-> ResultOf(cur.arg), error |-> NoError]
          ELSE IF cur.op = "return global" THEN [result |-> ResultOf(g), error |-> NoError]
          ELSE IF cur.op = "return setTimeout.x" THEN [result |-> ResultOf(h), error |-> NoError]
          ELSE IF cur.op = "throw" THEN [result |-> NoResult, error |-> <<cur.arg.lit>>]
          ELSE IF cur.op = "while(true)" THEN [result |-> NoResult, error |-> TimedOut]
          ELSE IF cur.op = "global =" THEN RunAlone(code, ip + 1, cur.arg, h)
          ELSE IF cur.op = "setTimeout.x =" THEN RunAlone(code, ip + 1, g, cur.arg)
          ELSE RunAlone(code, ip + 1, g, h)

Alone(code) == RunAlone(code, 1, Undefined, Undefined)

\* C20: the result of an execution depends only on its own source text:
\* every execution_result carries the result and the error the script
\* yields when no other script has run before it or runs beside it.
C20_FreshInterpreter ==
  \A i \in 1..Len(requests) :
    (requests[i].type = "execute_code" /\ requests[i].terminal = "execution_result"
       /\ requests[i].language \in JsLanguages)
      => /\ requests[i].result = Alone(requests[i].code).result
         /\ requests[i].error = Alone(requests[i].code).error

\* the last effect of a script: what ends its run
LastInstr(code) == code[Len(code)]

Completes(code) == LastInstr(code).op \notin {"throw", "while(true)"}

\* the value a script that completes returns
Completion(code) == IF LastInstr(code).op = "return" THEN LastInstr(code).arg ELSE Undefined

\* C21: no execution_result a connection has received has both result and
\* error populated; the execution_result of a script that completed
\* carries error null and, as result, the text of the returned value (no
\* result when it returned none); the execution_result of a script that
\* threw or timed out carries an error and no result.
C21_ResultXorError ==
  /\ \A c \in ConnIds : \A e \in Events(c) :
       e.type = "execution_result" => (e.result = NoResult \/ e.error = NoError)
  /\ \A i \in 1..Len(requests) :
       (requests[i].type = "execute_code" /\ requests[i].terminal = "execution_result"
          /\ requests[i].language \in JsLanguages) =>
         IF Completes(requests[i].code)
           THEN /\ requests[i].error = NoError
                /\ (Completion(requests[i].code) = Undefined) = (requests[i].result = NoResult)
           ELSE /\ requests[i].error # NoError
                /\ requests[i].result = NoResult

ProgramFails(i) ==
  \/ requests[i].language \notin JsLanguages
  \/ ~Completes(requests[i].code)

\* C23: every execute_code request whose program failed (it threw, timed
\* out, or declared an unsupported language) was answered with
\* execution_result with error populated, and every request answered with
\* execution_error is one whose sandbox could not be constructed on the
\* host.
C23_DistinctFailureEvents ==
  \A i \in 1..Len(requests) :
    (requests[i].type = "execute_code" /\ Done(i)) =>
      /\ (ProgramFails(i) /\ requests[i].error # HostFailure) =>
           (requests[i].terminal = "execution_result" /\ requests[i].error # NoError)
      /\ requests[i].terminal = "execution_error" => requests[i].error = HostFailure

\* C24: a delete_file whose path did not exist when it was handled is
\* answered with an error and not with file_deleted, and leaves the
\* workspace as it was: each connection has received at most as many
\* file_deleted events as it has sent delete_file requests that found
\* their path.
C24_DeleteMissingFails ==
  /\ \A i \in 1..Len(requests) :
       (requests[i].type = "delete_file" /\ Done(i) /\ ~requests[i].existed)
         => ~requests[i].ok
  /\ \A c \in ConnIds :
       CountEvents(c, {"file_deleted"})
         <= Cardinality({i \in FileRequestsOf(c) :
                           requests[i].type = "delete_file" /\ Done(i) /\ requests[i].existed})

\* C25: when the handler of a rename_file request returns having sent
\* file_renamed, the source existed, the old path is now absent, the new
\* path holds what the old path held, and every directory above the new
\* path exists; when it returns and the source did not exist, it sent an
\* error event and no file_renamed.
C25_RenameMoves ==
  [][\A i \in Slots :
       (Returns(i) /\ requests[i].type = "rename_file") =>
         LET r == requests[i]
             old == Full(r.filePath)
             new == Full(r.newPath)
         IN /\ requests'[i].ok =>
                 /\ received'[r.conn] = Send(received, r.conn, FileRenamed(r.filePath, r.newPath))[r.conn]
                 /\ disk[old].kind # "absent"
                 /\ disk'[old] = Absent
                 /\ disk'[new] = disk[old]
                 /\ \A q \in Prefixes(PathDirname(new)) : disk'[q].kind = "dir"
            /\ disk[old].kind = "absent" =>
                 /\ ~requests'[i].ok
                 /\ \E code \in {"ENOENT", "ENOTDIR"} :
                      received'[r.conn]
                        = Send(received, r.conn, Failed("Failed to rename file", code))[r.conn]
                 /\ disk'[new] = disk[new]]_vars

\* example.js was renamed into the new directory d, which now exists and
\* holds the content, and a rename of the missing a.txt was refused
C25_Witness ==
  \E i \in 1..Len(requests) : \E j \in 1..Len(requests) :
    /\ requests[i].type = "rename_file" /\ requests[i].ok
    /\ requests[i].filePath = ExamplePath /\ requests[i].newPath = DeepPath
    /\ disk[Full(ExamplePath)] = Absent
    /\ disk[Full(DeepPath)] = File(ContentE)
    /\ disk[PathDirname(Full(DeepPath))] = Dir
    /\ FileRenamed(ExamplePath, DeepPath) \in Events(requests[i].conn)
    /\ requests[j].type = "rename_file" /\ Done(j) /\ ~requests[j].ok
    /\ requests[j].filePath = NewPath
    /\ Failed("Failed to rename file", "ENOENT") \in Events(requests[j].conn)

StoreTypes == {"write_file", "create_file"}

\* the request received last among those of the set M
MostRecent(M) == CHOOSE i \in M : \A j \in M : j <= i

\* C26: create_file and write_file act alike on the store: a request of
\* either type whose handler found the file already there succeeded, and
\* once the handlers of all the create_file and write_file requests for a
\* path have returned, with no other request mutating the path, the file
\* holds the content of the most recent of them.
C26_CreateIsWrite ==
  /\ \A i \in 1..Len(requests) :
       (requests[i].type \in StoreTypes /\ Done(i) /\ requests[i].existed) => requests[i].ok
  /\ \A p \in RelPaths \cup MorePaths :
       LET M == Mutators(p)
       IN ( /\ M # {}
            /\ \A i \in M : requests[i].type \in StoreTypes /\ Done(i) /\ requests[i].ok )
          => disk[Full(p)] = File(requests[MostRecent(M)].content)

\* the acknowledged write of path p that was applied last
LastApplied(p) ==
  CHOOSE i \in Mutators(p) :
    /\ requests[i].applied > 0
    /\ \A j \in Mutators(p) : requests[j].applied <= requests[i].applied

\* C27: when file_written or file_created has been sent for a write of a
\* path and no other request has touched the path since (every other
\* create_file or write_file of the path has returned or has not yet
\* opened the file, and nothing else mutates the path), the store holds
\* exactly the content of that write, which is what a read_file submitted
\* now returns.
C27_DurableBeforeAck ==
  \A p \in RelPaths \cup MorePaths :
    ( /\ \E i \in Mutators(p) : requests[i].applied > 0
      /\ \A i \in Mutators(p) :
           /\ requests[i].type \in StoreTypes
           /\ IF Done(i) THEN requests[i].ok ELSE requests[i].pc \in {"ensureDir", "open"} )
    => disk[Full(p)] = File(requests[LastApplied(p)].content)

\* the ids the server has handed out
HandedOut == 1..nextId

\* C28: no id stands twice in the registry; the registry holds exactly the
\* ids handed out whose connection has not closed; and a step that attaches
\* a connection registers it under an id that had not been handed out
\* before, leaving every other id's connection as it was.
C28_FreshIds ==
  [][/\ \A k \in 1..Len(connections') : \A m \in 1..Len(connections') :
          k # m => connections'[k] # connections'[m]
     /\ {connections'[k] : k \in 1..Len(connections')}
          = {c \in 1..nextId' : readyState'[c] \in {"OPEN", "CLOSING"}}
     /\ \A c \in ConnIds : c \notin 1..nextId' => readyState'[c] = "NONE"
     /\ nextId' # nextId =>
          \E c \in ConnIds :
            /\ c \notin HandedOut
            /\ connections' = Append(connections, c)
            /\ readyState' = [readyState EXCEPT ![c] = "OPEN"]
            /\ nextId' = nextId + 1]_vars

\* the first connection has closed and left the registry, and the second
\* attached under another id and is the only one registered
C28_Witness ==
  /\ nextId = 2
  /\ readyState[1] = "CLOSED"
  /\ readyState[2] = "OPEN"
  /\ connections = <<2>>

\* C29: no connection ever receives file_changed for a path with a
\* dot-prefixed name or parent directory; and once nothing is in flight,
\* every acknowledged create_file or write_file of a path without one has
\* reached each connection attached at the time (and still open) as a
\* file_changed event for that path.
C29_WatcherIgnoresHidden ==
  /\ \A c \in ConnIds : \A e \in Events(c) :
       e.type = "file_changed" => ~Ignored(Full(e.path))
  /\ Quiet =>
       \A i \in 1..Len(requests) :
         (StoreWritten(i) /\ ~Ignored(Full(requests[i].filePath))) =>
           \A c \in requests[i].audience :
             readyState[c] = "OPEN" =>
               \E e \in Events(c) :
                 /\ e.type = "file_changed"
                 /\ e.path = PathRelative(WORKSPACE_DIR, Full(requests[i].filePath))

\* C30: every step of the handlers of GET /api/health and GET /api/files
\* (the arrival of the request, and the answer) leaves the files and
\* directories of the workspace, the registry, every transport, and the
\* events delivered to every connection as they were.
C30_RestSideEffectFree ==
  [][http' # http =>
       /\ disk' = disk
       /\ connections' = connections
       /\ readyState' = readyState
       /\ received' = received
       /\ changes' = changes
       /\ requests' = requests
       /\ running' = running]_vars

\* both endpoints have answered while a client was attached and a file
\* had been created: the listing names the new file
C30_Witness ==
  /\ Len(http) = 2
  /\ \E k \in 1..2 : http[k].route = "/api/health" /\ http[k].status = 200
  /\ \E k \in 1..2 :
       /\ http[k].route = "/api/files"
       /\ http[k].status = 200
       /\ [name |-> "a.txt", type |-> "file"] \in http[k].body.files
  /\ Registered # {}
  /\ \E c \in Registered : received[c] # <<>>

\* the call a step makes to the Tool Process Manager, when it makes one
Called == Len(toolLog') = Len(toolLog) + 1

TheCall == toolLog'[Len(toolLog')]

\* C31: every call of stop on an id that is already stopped, or that was
\* never started, returns the not-found outcome (it does not raise) and
\* leaves the status of every tracked process as it was.
C31_StopIdempotent ==
  [][(Called /\ TheCall.op = "stop"
        /\ tools[TheCall.id].status \in {"stopped", "none"})
       => (TheCall.outcome = "NotFound" /\ tools' = tools)]_vars

\* stop was called twice on one started process and once on an id that was
\* never started: the first call succeeded, the others returned NotFound
C31_Witness ==
  /\ toolLog = <<ToolCall("start", 1, "started"), ToolCall("stop", 1, "success"),
                 ToolCall("stop", 1, "NotFound"), ToolCall("stop", 2, "NotFound")>>

\* C32: an invoke on an id whose status is starting, stopped or failed
\* returns "process not running" (not a result, and not the timeout of a
\* wait on the handle); a status that is stopped or failed does not become
\* running; and every start hands out an id no process had before.
C32_RoutedOnlyToRunning ==
  [][/\ (Called /\ TheCall.op = "invoke"
           /\ tools[TheCall.id].status \in {"starting", "stopped", "failed"})
          => TheCall.outcome = "process not running"
     /\ \A t \in ToolIds :
          tools[t].status \in {"stopped", "failed"} => tools'[t].status # "running"
     /\ (Called /\ TheCall.op = "start")
          => (tools[TheCall.id].status = "none" /\ TheCall.id \notin 1..nextTool)]_vars

\* process 1 answered an invoke, crashed, refused the next invoke, and the
\* start that followed handed out id 2
C32_Witness ==
  /\ tools[1].status = "failed"
  /\ toolLog = <<ToolCall("start", 1, "started"), ToolCall("invoke", 1, "result"),
                 ToolCall("invoke", 1, "process not running"),
                 ToolCall("start", 2, "started")>>

\* C33: once the sandbox server has shut down, its browser process is not
\* running; and a browser that was running when SIGINT came has been closed
\* by the handler (or had died by itself) before the process exited, it was
\* not left to be killed at exit.
C33_NoOrphans ==
  ~sandboxUp =>
    /\ chromium # "running"
    /\ atSigint = "running" => chromium \in {"stopped", "failed"}

\* SIGINT came while the browser was running, and the server has exited
\* after closing it
C33_Witness ==
  /\ ~sandboxUp
  /\ atSigint = "running"
  /\ chromium = "stopped"

\* C34: when the only requests handled were rename_file requests that
\* failed, every file and directory is as it was before them: nothing was
\* moved or overwritten and no directory was created.
C34_FailedRenameNoChange ==
  ( /\ requests # <<>>
    /\ \A i \in 1..Len(requests) :
         requests[i].type = "rename_file" /\ Done(i) /\ ~requests[i].ok )
  => disk = InitialDisk

\* the events a step delivers to connection c
Delivered(c) == SubSeq(received'[c], Len(received[c]) + 1, Len(received'[c]))

ReadTypes == {"read_file", "list_files"}

\* C35: a step of a read_file or list_files request (its arrival, and the
\* completion that answers it, with the content, the listing or an error)
\* leaves every file and directory as it was, raises no change
\* notification, and delivers no file_changed event to any connection.
C35_ReadersChangeNothing ==
  [][\A i \in Slots :
       ( \/ Returns(i) /\ requests[i].type \in ReadTypes
         \/ Len(requests) = i - 1 /\ Len(requests') = i /\ requests'[i].type \in ReadTypes )
       => /\ disk' = disk
          /\ changes' = changes
          /\ \A c \in ConnIds :
               /\ Len(received'[c]) >= Len(received[c])
               /\ \A k \in 1..Len(Delivered(c)) : Delivered(c)[k].type # "file_changed"]_vars

\* a listing has succeeded and a read of a missing file has failed
C35_Witness ==
  \E c \in ConnIds :
    /\ \E e \in Events(c) : e.type = "file_list"
    /\ Failed("Failed to read file", "ENOENT") \in Events(c)

\* C36: every file_list a client receives in answer to the list_files its
\* createFile sent after create_file names the created file, and so does
\* the App's state files once it has handled that answer.
C36_PerConnectionOrder ==
  \A c \in ConnIds :
    /\ \A e \in Events(c) :
         e.type = "file_list" => \E f \in e.files : f.name = NewPath[1]
    /\ (handled[c] = 2 /\ Len(received[c]) = 2) => \E f \in files[c] : f.name = NewPath[1]

\* a step schedules a reconnect
Scheduled == Len(reconnectTimers') = Len(reconnectTimers) + 1

\* C37: reconnectAttempts stays between 0 and maxReconnectAttempts; a step
\* schedules a reconnect only when it is the close event of a socket whose
\* code is not 1000, with reconnectAttempts below the maximum; the reconnect
\* scheduled as the n-th since a socket last opened has delay
\* 1000 * 2^(n-1) ms; and the step in which a socket opens sets
\* reconnectAttempts to 0.
C37_BoundedReconnect ==
  [][/\ reconnectAttempts' \in 0..5
     /\ Scheduled =>
          /\ \E s \in 1..Len(sockets) :
               /\ sockets[s].state # "CLOSED" /\ sockets'[s].state = "CLOSED"
               /\ sockets[s].code # 1000
          /\ reconnectAttempts < 5
          /\ reconnectTimers'[Len(reconnectTimers')] = 1000 * Pow2(sinceOpen' - 1)
     /\ (\E s \in 1..Len(sockets) : sockets[s].state # "OPEN" /\ sockets'[s].state = "OPEN")
          => reconnectAttempts' = 0]_vars

\* five reconnects in a row have been scheduled, the last with delay
\* 16000 ms, and the close that followed scheduled no sixth
C37_Witness ==
  /\ reconnectAttempts = 5
  /\ Len(sockets) = 6
  /\ sockets[6].state = "CLOSED"
  /\ sinceOpen = 5
  /\ reconnectTimers = <<>>

\* C38: from the call of disconnect() until the user calls connect()
\* again, no step creates a socket: not the timer of a reconnect scheduled
\* earlier, and not the close event of the socket being disconnected.
C38_NoConnectAfterDisconnect ==
  [][(userDisconnected /\ userDisconnected') => Len(sockets') = Len(sockets)]_vars

\* nothing more will reach the App of connection c: the server has handled
\* every message of c it can still take (none once the transport has left
\* OPEN), the App has handled every event delivered to it, and it has been
\* told when the connection is gone
Settled(c) ==
  /\ readyState[c] = "OPEN" => Taken(c) = Len(appSent[c])
  /\ \A i \in 1..Len(requests) : requests[i].conn = c => Done(i)
  /\ handled[c] = Len(received[c])
  /\ readyState[c] # "OPEN" => ~isConnected[c]

\* C39: once nothing more will reach the App (every execute_code it sent
\* has been answered or its connection is lost and the App has seen the
\* disconnect, and every event delivered has been handled), isExecuting is
\* false.
C39_ExecutingClears ==
  \A c \in ConnIds : Settled(c) => ~isExecuting[c]

\* the outcome the response to execution e carries
OwnOutcomes(e) ==
  LET x == executions[e]
  IN {[tool |-> x.tool, status |-> "completed", result |-> ToolData(x.tool, x.params),
       error |-> Unset],
      [tool |-> x.tool, status |-> "error", result |-> Unset,
       error |-> ToolMsg(x.tool, x.params)],
      [tool |-> x.tool, status |-> "error", result |-> Unset, error |-> FetchError]}

\* C40: the message an execution pushed is started while the execution
\* awaits its response, and once the execution has finished it carries the
\* outcome of the response to that same execution.
C40_OwnOutcome ==
  \A e \in 1..Len(executions) :
    LET msg == messages[executions[e].index]
    IN IF executions[e].pc = "await" THEN msg = StartedMessage(executions[e].tool)
       ELSE msg \in OwnOutcomes(e)

====
